---- MODULE Spec2Model ----
(***************************************************************************)
(* A model of the USB PD parser's Section Extraction and Validation        *)
(* Engine: the header classifier and hierarchy resolver (pure functions on *)
(* a line of text), the two TOC builders and the two content builders      *)
(* (USBPDTOCParser / TOCExtractor, USBPDSpecParser / ContentExtractor),    *)
(* and the two validation strategies.                                      *)
(*                                                                         *)
(* Text is modelled character by character: a Python str is a sequence of  *)
(* one-character strings.  A character that the TLA+ source cannot spell   *)
(* is a token: "sup2" is U+00B2 SUPERSCRIPT TWO, for which str.isdigit()   *)
(* is True although it is no ASCII digit.                                  *)
(***************************************************************************)
EXTENDS Integers, Sequences, FiniteSets, TLC

VARIABLES
    \* ---- line level (header classifier, hierarchy resolver)
    lpc,            \* position of the line-level run
    line,           \* the raw line handed to the classifiers
    page_num,       \* the page number handed to __parse_toc_line
    toc_line,       \* USBPDTOCParser.__parse_toc_line(line, page_num)
    ext_line,       \* TOCExtractor._parse_toc_line(line, page_num)
    spec_line,      \* USBPDSpecParser: __is_section_header / __extract_section_id
    tp_line,        \* TextProcessor.is_section_header / extract_section_id / ...
    \* ---- document level (builders)
    pc,             \* position of the pipeline run
    pages,          \* the document as the lines of each page (what text_data was built from)
    text_data,      \* page number -> text (a sequence: page i is key i)
    toc_parser,     \* the USBPDTOCParser instance
    toc_ret,        \* what its parse returned
    spec_parser,    \* the USBPDSpecParser instance
    spec_ret,       \* what its parse returned
    toc_extractor,  \* the TOCExtractor instance (_extracted_items)
    content_extractor, \* the ContentExtractor instance (_extracted_items, _buffer)
    parse_exc,      \* the exception the last parse call of a parser ended with, if any
    \* ---- validation strategies
    vpc,            \* position of the validation run
    toc_validator,  \* the TOCValidationStrategy instance
    toc_valid,      \* what its last validate returned
    toc_data,       \* the data of its last validate call
    spec_validator, \* the SpecValidationStrategy instance
    spec_valid,     \* what its last validate returned
    spec_data,      \* the data of its last validate call
    calls,          \* validate calls made on the instances so far
    val_exc,        \* the exception the last validate call ended with, if any
    \* ---- application (orchestrator, writers, runner script)
    orchestrator,   \* the USBPDParserOrchestrator instance, with its
                    \* ProgressTracker and StatisticsCollector
    step_log,       \* the progress lines printed so far, in order
    writers,        \* the writer instances, by the orchestrator's keys
    files,          \* the output files, by the same keys
    runner          \* a USBPDRunner.execute call

lineVars == <<lpc, line, page_num, toc_line, ext_line, spec_line, tp_line>>
docVars  == <<pc, pages, text_data, toc_parser, toc_ret, spec_parser, spec_ret,
              toc_extractor, content_extractor, parse_exc>>
valVars  == <<vpc, toc_validator, toc_valid, toc_data, spec_validator, spec_valid,
              spec_data, calls, val_exc>>
appVars  == <<orchestrator, step_log, writers, files, runner>>
vars     == <<lineVars, docVars, valVars, appVars>>

-----------------------------------------------------------------------------
(* Bounds of the model *)

MaxLineLen == 4
MaxLines == 3
MaxPages == 2
MaxCalls == 2
MaxExecLines == 1
MaxFailAt == 2
MaxRepeats == 2
MaxWrites == 3

-----------------------------------------------------------------------------
(* Python values *)

\* None, where a str (a sequence of characters) may stand as well
None == <<"<None>">>
\* None, where a dict (a record) may stand as well
NoEntry == [none |-> TRUE]

\* no exception: the call returned
NoException == ""

\* the doc_title every builder is constructed with; it is only copied
DocTitle == "USB Power Delivery Specification, Revision 3.2, Version 1.1, 2024-10"

MinOf(S) == CHOOSE x \in S : \A y \in S : x <= y
MaxOf(S) == CHOOSE x \in S : \A y \in S : y <= x

-----------------------------------------------------------------------------
(* Python str methods, on sequences of characters *)

AsciiDigits == {"0", "1", "2", "3", "4", "5", "6", "7", "8", "9"}

\* str.isdigit() of one character: the ASCII digits and every other
\* character of Unicode numeric type Digit or Decimal
IsDigit(c) == c \in AsciiDigits \cup {"sup2"}

\* the characters str.strip() and str.split() treat as whitespace
Whitespace == {" ", "\t", "\n", "\r", "\f"}
IsSpace(c) == c \in Whitespace

\* the first index from i on whose character is no whitespace (Len(s) + 1: none)
RECURSIVE FirstNonSpace(_, _)
FirstNonSpace(s, i) ==
    IF i > Len(s) THEN i
    ELSE IF IsSpace(s[i]) THEN FirstNonSpace(s, i + 1) ELSE i

\* the last index up to i whose character is not in chs (0: none)
RECURSIVE LastNot(_, _, _)
LastNot(s, i, chs) ==
    IF i < 1 THEN 0
    ELSE IF s[i] \in chs THEN LastNot(s, i - 1, chs) ELSE i

\* s.lstrip()
LStrip(s) == SubSeq(s, FirstNonSpace(s, 1), Len(s))

\* s.strip()
Strip(s) ==
    SubSeq(s, FirstNonSpace(s, 1), LastNot(s, Len(s), Whitespace))

\* s.rstrip(ch)
RStrip(s, ch) == SubSeq(s, 1, LastNot(s, Len(s), {ch}))

\* s.count(ch)
Count(s, ch) == Cardinality({i \in 1..Len(s) : s[i] = ch})

\* s.split(sep) for a one-character sep: always at least one part
RECURSIVE Split(_, _)
Split(s, sep) ==
    LET at == {i \in 1..Len(s) : s[i] = sep}
    IN  IF at = {} THEN <<s>>
        ELSE <<SubSeq(s, 1, MinOf(at) - 1)>>
             \o Split(SubSeq(s, MinOf(at) + 1, Len(s)), sep)

\* s.split(maxsplit=1): split on the first whitespace run; no empty parts
SplitMaxsplit1(s) ==
    LET t  == LStrip(s)
        ws == {i \in 1..Len(t) : IsSpace(t[i])}
    IN  IF t = <<>> THEN <<>>
        ELSE IF ws = {} THEN <<t>>
        ELSE LET rest == LStrip(SubSeq(t, MinOf(ws), Len(t)))
             IN  IF rest = <<>> THEN <<SubSeq(t, 1, MinOf(ws) - 1)>>
                 ELSE <<SubSeq(t, 1, MinOf(ws) - 1), rest>>

\* sep.join(parts)
RECURSIVE Join(_, _)
Join(parts, sep) ==
    IF parts = <<>> THEN <<>>
    ELSE IF Len(parts) = 1 THEN parts[1]
    ELSE parts[1] \o sep \o Join(Tail(parts), sep)

\* parts[:-1]
AllButLast(parts) == SubSeq(parts, 1, Len(parts) - 1)

-----------------------------------------------------------------------------
(* Header classifier and hierarchy resolver *)

\* CalculateParentId returning the first component (parts[0] for parts[:-1])
CalculateParentId_FirstComponent(section_id) ==
    IF Count(section_id, ".") = 0 THEN None
    ELSE Split(section_id, ".")[1]

\* USBPDTOCParser.__calculate_parent_id
CalculateParentId(section_id) ==
    IF Count(section_id, ".") = 0 THEN None
    ELSE Join(AllButLast(Split(section_id, ".")), <<".">>)

\* ParseTocLine without the trailing dots stripped from the first token
ParseTocLine_KeepDots(ln, pnum) ==
    LET line_stripped == Strip(ln)
        parts      == SplitMaxsplit1(line_stripped)
        section_id == parts[1]
        title      == IF Len(parts) > 1 THEN parts[2] ELSE <<>>
    IN  IF line_stripped = <<>> THEN NoEntry
        ELSE IF ~IsDigit(line_stripped[1]) THEN NoEntry
        ELSE [doc_title  |-> DocTitle,
              section_id |-> section_id,
              title      |-> title,
              page       |-> pnum,
              level      |-> Count(section_id, ".") + 1,
              parent_id  |-> CalculateParentId(section_id),
              full_path  |-> section_id \o <<" ">> \o title]

\* USBPDTOCParser.__parse_toc_line
ParseTocLine(ln, pnum) ==
    LET line_stripped == Strip(ln)
        parts      == SplitMaxsplit1(line_stripped)
        section_id == RStrip(parts[1], ".")
        title      == IF Len(parts) > 1 THEN parts[2] ELSE <<>>
    IN  IF line_stripped = <<>> THEN NoEntry
        ELSE IF ~IsDigit(line_stripped[1]) THEN NoEntry
        ELSE [doc_title  |-> DocTitle,
              section_id |-> section_id,
              title      |-> title,
              page       |-> pnum,
              level      |-> Count(section_id, ".") + 1,
              parent_id  |-> CalculateParentId(section_id),
              full_path  |-> section_id \o <<" ">> \o title]

\* TOCExtractor._is_toc_line (its truth value)
IsTocLine(ln) == ln # <<>> /\ Len(ln) > 0 /\ IsDigit(ln[1])

\* TOCExtractor._calculate_parent_id
ExtCalculateParentId(section_id) ==
    IF Count(section_id, ".") = 0 THEN None
    ELSE Join(AllButLast(Split(section_id, ".")), <<".">>)

\* TOCExtractor._create_toc_entry
CreateTocEntry(ln, pnum) ==
    LET parts      == SplitMaxsplit1(ln)
        section_id == RStrip(parts[1], ".")
        title      == IF Len(parts) > 1 THEN parts[2] ELSE <<>>
    IN  [doc_title  |-> DocTitle,
         section_id |-> section_id,
         title      |-> title,
         page       |-> pnum,
         level      |-> Count(section_id, ".") + 1,
         parent_id  |-> ExtCalculateParentId(section_id),
         full_path  |-> section_id \o <<" ">> \o title]

\* TOCExtractor._parse_toc_line
ExtParseTocLine(ln, pnum) ==
    LET line_stripped == Strip(ln)
    IN  IF ~IsTocLine(line_stripped) THEN NoEntry
        ELSE CreateTocEntry(line_stripped, pnum)

\* USBPDSpecParser.__is_section_header
IsSectionHeader(ln) ==
    IF ln = <<>> THEN FALSE ELSE IsDigit(ln[1])

\* ExtractSectionId without the rstrip('.')
ExtractSectionId_KeepDots(ln) == SplitMaxsplit1(ln)[1]

\* USBPDSpecParser.__extract_section_id
ExtractSectionId(ln) == RStrip(SplitMaxsplit1(ln)[1], ".")

\* ContentExtractor._is_section_header (its truth value)
CeIsSectionHeader(ln) == ln # <<>> /\ Len(ln) > 0 /\ IsDigit(ln[1])

\* TextProcessor.is_section_header
TpIsSectionHeader(ln) ==
    LET l == Strip(ln) IN l # <<>> /\ IsDigit(l[1])

\* TextProcessor.extract_section_id
TpExtractSectionId(ln) == RStrip(SplitMaxsplit1(Strip(ln))[1], ".")

\* TextProcessor.calculate_hierarchy_level
TpCalculateHierarchyLevel(section_id) == Count(section_id, ".") + 1

\* TextProcessor.get_parent_id
TpGetParentId(section_id) ==
    IF Count(section_id, ".") = 0 THEN None
    ELSE Join(AllButLast(Split(section_id, ".")), <<".">>)

-----------------------------------------------------------------------------
(* Line level: every classifier applied to one line *)

\* the characters lines are drawn from: an ASCII digit, a non-ASCII digit,
\* the dot, a blank and a letter
LineChars == {"1", "sup2", ".", " ", "a"}

Lines == UNION {[1..n -> LineChars] : n \in 0..MaxLineLen}

\* what USBPDSpecParser.parse computes from one line (lines 88-109): whether
\* it opens a section, the section's id and the title it seeds the buffer with
SpecParserLine(ln) ==
    LET line_stripped == Strip(ln)
        parts == SplitMaxsplit1(line_stripped)
    IN  IF IsSectionHeader(line_stripped)
        THEN [is_header  |-> TRUE,
              section_id |-> ExtractSectionId(line_stripped),
              seed       |-> IF Len(parts) > 1 THEN <<parts[2]>> ELSE <<>>]
        ELSE [is_header |-> FALSE, section_id |-> None, seed |-> <<>>]

\* the TextProcessor helpers applied to one line
TextProcessorLine(ln) ==
    IF TpIsSectionHeader(ln)
    THEN [is_header  |-> TRUE,
          section_id |-> TpExtractSectionId(ln),
          level      |-> TpCalculateHierarchyLevel(TpExtractSectionId(ln)),
          parent_id  |-> TpGetParentId(TpExtractSectionId(ln))]
    ELSE [is_header |-> FALSE, section_id |-> None, level |-> 0, parent_id |-> None]

LineIdle ==
    /\ lpc = "idle"
    /\ line = <<>>
    /\ page_num = 0
    /\ toc_line = NoEntry
    /\ ext_line = NoEntry
    /\ spec_line = NoEntry
    /\ tp_line = NoEntry

LineInit ==
    /\ lpc = "start"
    /\ line \in Lines
    /\ page_num \in 1..MaxPages
    /\ toc_line = NoEntry
    /\ ext_line = NoEntry
    /\ spec_line = NoEntry
    /\ tp_line = NoEntry

\* USBPDTOCParser.__parse_toc_line(line, page_num)
TocParserLineStep ==
    /\ lpc = "start"
    /\ toc_line' = ParseTocLine(line, page_num)
    /\ lpc' = "toc"
    /\ UNCHANGED <<line, page_num, ext_line, spec_line, tp_line>>

\* TOCExtractor._parse_toc_line(line, page_num)
TocExtractorLineStep ==
    /\ lpc = "toc"
    /\ ext_line' = ExtParseTocLine(line, page_num)
    /\ lpc' = "ext"
    /\ UNCHANGED <<line, page_num, toc_line, spec_line, tp_line>>

\* the header branch of USBPDSpecParser.parse on the line
SpecParserLineStep ==
    /\ lpc = "ext"
    /\ spec_line' = SpecParserLine(line)
    /\ lpc' = "spec"
    /\ UNCHANGED <<line, page_num, toc_line, ext_line, tp_line>>

\* TextProcessor's static helpers on the line
TextProcessorLineStep ==
    /\ lpc = "spec"
    /\ tp_line' = TextProcessorLine(line)
    /\ lpc' = "done"
    /\ UNCHANGED <<line, page_num, toc_line, ext_line, spec_line>>


-----------------------------------------------------------------------------
(* The builders *)

\* an empty dict
EmptyDict == [k \in {} |-> 0]

\* d[k] = d.get(k, 0) + 1
DictIncrement(d, k) ==
    IF k \in DOMAIN d THEN [d EXCEPT ![k] = @ + 1] ELSE d @@ (k :> 1)

\* USBPDTOCParser.__init__ (with BaseParser.__init__)
NewTocParser ==
    [toc_entries      |-> <<>>,
     hierarchy_levels |-> EmptyDict,
     max_depth        |-> 0,
     pattern_matched  |-> 0,
     total_items      |-> 0,
     is_parsed        |-> FALSE]

\* TocParserLine merging a header line whose section id was seen before
TocParserLine_MergeDuplicates(acc, ln, pnum) ==
    LET entry == ParseTocLine(ln, pnum)
    IN  IF entry = NoEntry THEN acc
        ELSE IF \E i \in 1..Len(acc.entries) : acc.entries[i].section_id = entry.section_id
        THEN acc
        ELSE [entries          |-> Append(acc.entries, entry),
              pattern_matched  |-> acc.pattern_matched + 1,
              hierarchy_levels |-> DictIncrement(acc.hierarchy_levels, entry.level),
              max_depth        |-> IF entry.level > acc.max_depth
                                   THEN entry.level ELSE acc.max_depth]

\* TocParserLine leaving out the header lines that have no title
TocParserLine_TitledOnly(acc, ln, pnum) ==
    LET entry == ParseTocLine(ln, pnum)
    IN  IF entry = NoEntry THEN acc
        ELSE IF entry.title = <<>> THEN acc
        ELSE [entries          |-> Append(acc.entries, entry),
              pattern_matched  |-> acc.pattern_matched + 1,
              hierarchy_levels |-> DictIncrement(acc.hierarchy_levels, entry.level),
              max_depth        |-> IF entry.level > acc.max_depth
                                   THEN entry.level ELSE acc.max_depth]

\* the body of the line loop of USBPDTOCParser.parse (lines 84-94): acc holds
\* the local list entries and the instance's counters
TocParserLine(acc, ln, pnum) ==
    LET entry == ParseTocLine(ln, pnum)
    IN  IF entry = NoEntry THEN acc
        ELSE [entries          |-> Append(acc.entries, entry),
              pattern_matched  |-> acc.pattern_matched + 1,
              hierarchy_levels |-> DictIncrement(acc.hierarchy_levels, entry.level),
              max_depth        |-> IF entry.level > acc.max_depth
                                   THEN entry.level ELSE acc.max_depth]

RECURSIVE TocParserLines(_, _, _, _)
TocParserLines(acc, lines, i, pnum) ==
    IF i > Len(lines) THEN acc
    ELSE TocParserLines(TocParserLine(acc, lines[i], pnum), lines, i + 1, pnum)

\* the page loop of USBPDTOCParser.parse (lines 78-94), from page p on
RECURSIVE TocParserPages(_, _, _)
TocParserPages(acc, td, p) ==
    IF p > Len(td) THEN acc
    ELSE IF td[p] = <<>> THEN TocParserPages(acc, td, p + 1)
    ELSE TocParserPages(TocParserLines(acc, Split(td[p], "\n"), 1, p), td, p + 1)

\* USBPDTOCParser.parse: the instance after the call; toc_entries is
\* the list the call returns
TocParserParse(self, td) ==
    LET acc == TocParserPages([entries          |-> <<>>,
                               pattern_matched  |-> self.pattern_matched,
                               hierarchy_levels |-> self.hierarchy_levels,
                               max_depth        |-> self.max_depth], td, 1)
    IN  [toc_entries      |-> acc.entries,
         hierarchy_levels |-> acc.hierarchy_levels,
         max_depth        |-> acc.max_depth,
         pattern_matched  |-> acc.pattern_matched,
         total_items      |-> Len(acc.entries),
         is_parsed        |-> TRUE]

\* TOCExtractor.__init__ (BaseExtractor.__init__)
NewTocExtractor == [extracted_items |-> <<>>]

\* TOCExtractor._extract_from_page, from line i on
RECURSIVE ExtractFromPage(_, _, _, _)
ExtractFromPage(items, lines, i, pnum) ==
    IF i > Len(lines) THEN items
    ELSE LET entry == ExtParseTocLine(lines[i], pnum)
         IN  ExtractFromPage(IF entry = NoEntry THEN items ELSE Append(items, entry),
                             lines, i + 1, pnum)

RECURSIVE TocExtractorPages(_, _, _)
TocExtractorPages(items, td, p) ==
    IF p > Len(td) THEN items
    ELSE IF td[p] = <<>> THEN TocExtractorPages(items, td, p + 1)
    ELSE TocExtractorPages(ExtractFromPage(items, Split(td[p], "\n"), 1, p), td, p + 1)

\* TOCExtractor.extract
TocExtractorExtract(self, td) ==
    [extracted_items |-> TocExtractorPages(<<>>, td, 1)]

\* a Python str or None is truthy
Truthy(x) == x # None /\ x # <<>>

\* USBPDSpecParser.__create_section_entry
CreateSectionEntry(section_id, buffer) ==
    [doc_title  |-> DocTitle,
     section_id |-> section_id,
     content    |-> Strip(Join(buffer, <<" ">>))]

\* USBPDSpecParser.__init__ (with BaseParser.__init__)
NewSpecParser ==
    [content_sections      |-> <<>>,
     total_content_length  |-> 0,
     sections_with_content |-> 0,
     buffer_size           |-> 0,
     total_items           |-> 0,
     is_parsed             |-> FALSE]

\* SpecParserStep without the title seeding the new buffer
SpecParserStep_NoTitle(st, ln) ==
    LET line_stripped == Strip(ln)
    IN  IF IsSectionHeader(line_stripped)
        THEN [sections        |-> IF Truthy(st.current_section) /\ st.buffer # <<>>
                                  THEN Append(st.sections,
                                              CreateSectionEntry(st.current_section, st.buffer))
                                  ELSE st.sections,
              current_section |-> ExtractSectionId(line_stripped),
              buffer          |-> <<>>,
              buffer_size     |-> st.buffer_size]
        ELSE IF line_stripped # <<>>
        THEN [st EXCEPT !.buffer = Append(@, line_stripped),
                        !.buffer_size = @ + Len(line_stripped)]
        ELSE st

\* SpecParserStep flushing at a header whether or not the buffer is empty
SpecParserStep_FlushEmpty(st, ln) ==
    LET line_stripped == Strip(ln)
        parts == SplitMaxsplit1(line_stripped)
    IN  IF IsSectionHeader(line_stripped)
        THEN [sections        |-> IF Truthy(st.current_section)
                                  THEN Append(st.sections,
                                              CreateSectionEntry(st.current_section, st.buffer))
                                  ELSE st.sections,
              current_section |-> ExtractSectionId(line_stripped),
              buffer          |-> IF Len(parts) > 1 THEN <<parts[2]>> ELSE <<>>,
              buffer_size     |-> st.buffer_size]
        ELSE IF line_stripped # <<>>
        THEN [st EXCEPT !.buffer = Append(@, line_stripped),
                        !.buffer_size = @ + Len(line_stripped)]
        ELSE st

\* SpecParserStep keeping, at the first header line, what was buffered
\* while no section was open
SpecParserStep_KeepsPreamble(st, ln) ==
    LET line_stripped == Strip(ln)
        parts == SplitMaxsplit1(line_stripped)
        title == IF Len(parts) > 1 THEN <<parts[2]>> ELSE <<>>
    IN  IF IsSectionHeader(line_stripped)
        THEN [sections        |-> IF Truthy(st.current_section) /\ st.buffer # <<>>
                                  THEN Append(st.sections,
                                              CreateSectionEntry(st.current_section, st.buffer))
                                  ELSE st.sections,
              current_section |-> ExtractSectionId(line_stripped),
              buffer          |-> IF Truthy(st.current_section)
                                  THEN title ELSE st.buffer \o title,
              buffer_size     |-> st.buffer_size]
        ELSE IF line_stripped # <<>>
        THEN [st EXCEPT !.buffer = Append(@, line_stripped),
                        !.buffer_size = @ + Len(line_stripped)]
        ELSE st

\* the body of the line loop of USBPDSpecParser.parse (lines 88-115): st holds
\* the locals sections, current_section, buffer and the instance's _buffer_size
SpecParserStep(st, ln) ==
    LET line_stripped == Strip(ln)
        parts == SplitMaxsplit1(line_stripped)
    IN  IF IsSectionHeader(line_stripped)
        THEN [sections        |-> IF Truthy(st.current_section) /\ st.buffer # <<>>
                                  THEN Append(st.sections,
                                              CreateSectionEntry(st.current_section, st.buffer))
                                  ELSE st.sections,
              current_section |-> ExtractSectionId(line_stripped),
              buffer          |-> IF Len(parts) > 1 THEN <<parts[2]>> ELSE <<>>,
              buffer_size     |-> st.buffer_size]
        ELSE IF line_stripped # <<>>
        THEN [st EXCEPT !.buffer = Append(@, line_stripped),
                        !.buffer_size = @ + Len(line_stripped)]
        ELSE st

RECURSIVE SpecParserLines(_, _, _)
SpecParserLines(st, lines, i) ==
    IF i > Len(lines) THEN st
    ELSE SpecParserLines(SpecParserStep(st, lines[i]), lines, i + 1)

\* SpecParserPages with the buffer reset at the start of every page
RECURSIVE SpecParserPages_ResetAtPage(_, _, _)
SpecParserPages_ResetAtPage(st, td, p) ==
    IF p > Len(td) THEN st
    ELSE IF td[p] = <<>> THEN SpecParserPages_ResetAtPage(st, td, p + 1)
    ELSE SpecParserPages_ResetAtPage(
             SpecParserLines([st EXCEPT !.buffer = <<>>], Split(td[p], "\n"), 1), td, p + 1)

\* the page loop of USBPDSpecParser.parse (lines 81-115), from page p on
RECURSIVE SpecParserPages(_, _, _)
SpecParserPages(st, td, p) ==
    IF p > Len(td) THEN st
    ELSE IF td[p] = <<>> THEN SpecParserPages(st, td, p + 1)
    ELSE SpecParserPages(SpecParserLines(st, Split(td[p], "\n"), 1), td, p + 1)

\* SpecParserFinalFlush with the flush forgotten: the open section is dropped
SpecParserFinalFlush_Forgotten(st) == st.sections

\* the flush after the page loop of USBPDSpecParser.parse (lines 117-123)
SpecParserFinalFlush(st) ==
    IF Truthy(st.current_section) /\ st.buffer # <<>>
    THEN Append(st.sections, CreateSectionEntry(st.current_section, st.buffer))
    ELSE st.sections

\* sum(len(s["content"]) for s in sections)
RECURSIVE TotalContentLength(_)
TotalContentLength(sections) ==
    IF sections = <<>> THEN 0
    ELSE Len(sections[1].content) + TotalContentLength(Tail(sections))

\* USBPDSpecParser.parse: the instance after the call; content_sections is
\* the list the call returns
SpecParserParse(self, td) ==
    LET st == SpecParserPages([sections        |-> <<>>,
                               current_section |-> None,
                               buffer          |-> <<>>,
                               buffer_size     |-> self.buffer_size], td, 1)
        sections == SpecParserFinalFlush(st)
    IN  [content_sections      |-> sections,
         total_content_length  |-> TotalContentLength(sections),
         sections_with_content |->
             Cardinality({i \in 1..Len(sections) : Strip(sections[i].content) # <<>>}),
         buffer_size           |-> st.buffer_size,
         total_items           |-> Len(sections),
         is_parsed             |-> TRUE]

\* SectionBuffer.__init__
NewSectionBuffer == [current_section |-> None, buffer |-> <<>>]

\* SectionBuffer.add_line
SbAddLine(sb, ln) ==
    IF Strip(ln) # <<>> THEN [sb EXCEPT !.buffer = Append(@, Strip(ln))] ELSE sb

\* SbGetContent joining the buffered lines without the blank between them
SbGetContent_Unseparated(sb) == Strip(Join(sb.buffer, <<>>))

\* SectionBuffer.get_content
SbGetContent(sb) == Strip(Join(sb.buffer, <<" ">>))

\* SectionBuffer.has_content
SbHasContent(sb) == SbGetContent(sb) # <<>>

\* ContentExtractor.__init__
NewContentExtractor == [extracted_items |-> <<>>, buffer |-> NewSectionBuffer]

\* ContentExtractor._save_current_section
SaveCurrentSection(self) ==
    IF Truthy(self.buffer.current_section) /\ SbHasContent(self.buffer)
    THEN [self EXCEPT !.extracted_items =
              Append(@, [doc_title  |-> DocTitle,
                         section_id |-> self.buffer.current_section,
                         content    |-> SbGetContent(self.buffer)])]
    ELSE self

\* ContentExtractor._start_new_section (with SectionBuffer.start_new_section)
StartNewSection(self, ln) ==
    LET parts  == SplitMaxsplit1(ln)
        opened == [current_section |-> RStrip(parts[1], "."), buffer |-> <<>>]
    IN  [self EXCEPT !.buffer =
             IF Len(parts) > 1 THEN SbAddLine(opened, parts[2]) ELSE opened]

\* ContentExtractor._process_line (with _handle_new_section)
ProcessLine(self, ln) ==
    LET line_stripped == Strip(ln)
    IN  IF CeIsSectionHeader(line_stripped)
        THEN StartNewSection(SaveCurrentSection(self), line_stripped)
        ELSE [self EXCEPT !.buffer = SbAddLine(@, line_stripped)]

\* ContentExtractor._process_page_content, from line i on
RECURSIVE ProcessPageContent(_, _, _)
ProcessPageContent(self, lines, i) ==
    IF i > Len(lines) THEN self
    ELSE ProcessPageContent(ProcessLine(self, lines[i]), lines, i + 1)

RECURSIVE ContentExtractorPages(_, _, _)
ContentExtractorPages(self, td, p) ==
    IF p > Len(td) THEN self
    ELSE IF td[p] = <<>> THEN ContentExtractorPages(self, td, p + 1)
    ELSE ContentExtractorPages(ProcessPageContent(self, Split(td[p], "\n"), 1), td, p + 1)

\* ContentExtractor._save_final_section
SaveFinalSection(self) == SaveCurrentSection(self)

\* ContentExtractor.extract: the instance after the call; extracted_items is
\* the list the call returns
ContentExtractorExtract(self, td) ==
    SaveFinalSection(ContentExtractorPages([self EXCEPT !.extracted_items = <<>>], td, 1))

-----------------------------------------------------------------------------
(* Document level: the builders run on one page-text mapping *)

\* the lines documents are made of: a blank line, content that needs
\* trimming, plain content, a header without a title, a header with a
\* title, and a second-level header with a title
Vocabulary ==
    { <<" ">>,
      <<" ", "a">>,
      <<"b">>,
      <<"1">>,
      <<"1", " ", "a">>,
      <<"1", ".", "1", " ", "c">> }

RECURSIVE SumSeq(_)
SumSeq(sz) == IF sz = <<>> THEN 0 ELSE sz[1] + SumSeq(Tail(sz))

\* the lines ls cut into pages of the sizes sz
Paginate(ls, sz) ==
    [p \in 1..Len(sz) |->
        SubSeq(ls, SumSeq(SubSeq(sz, 1, p - 1)) + 1, SumSeq(SubSeq(sz, 1, p)))]

\* every document of at most max_pages pages and max_lines lines in all; a
\* page of no lines is a page whose text is empty
DocsOf(max_pages, max_lines) ==
    UNION { UNION { { Paginate(ls, sz) :
                        ls \in [1..n -> Vocabulary],
                        sz \in {z \in [1..p -> 0..n] : SumSeq(z) = n} }
                    : n \in 0..max_lines }
            : p \in 0..max_pages }

Docs == DocsOf(MaxPages, MaxLines)

\* the example of the specification:
\* {1: "1 Intro\nSome text\n1.1 Background\nMore text"}
ExamplePages ==
    << << <<"1", " ", "I", "n", "t", "r", "o">>,
          <<"S", "o", "m", "e", " ", "t", "e", "x", "t">>,
          <<"1", ".", "1", " ", "B", "a", "c", "k", "g", "r", "o", "u", "n", "d">>,
          <<"M", "o", "r", "e", " ", "t", "e", "x", "t">> >> >>

\* the text of a page: its lines joined by newlines
PageText(lines) == Join(lines, <<"\n">>)

DocIdle ==
    /\ pc = "idle"
    /\ pages = <<>>
    /\ text_data = <<>>
    /\ toc_parser = NewTocParser
    /\ toc_ret = None
    /\ spec_parser = NewSpecParser
    /\ spec_ret = None
    /\ toc_extractor = NewTocExtractor
    /\ content_extractor = NewContentExtractor
    /\ parse_exc = NoException

DocInit ==
    /\ pc = "start"
    /\ pages \in Docs \cup {ExamplePages}
    /\ text_data = [p \in 1..Len(pages) |-> PageText(pages[p])]
    /\ toc_parser = NewTocParser
    /\ toc_ret = None
    /\ spec_parser = NewSpecParser
    /\ spec_ret = None
    /\ toc_extractor = NewTocExtractor
    /\ content_extractor = NewContentExtractor
    /\ parse_exc = NoException

\* seq[i] of Python, i counted from 1: the exception it ends with, if any
IndexExc(seq, i) == IF i \in 1..Len(seq) THEN NoException ELSE "IndexError"

\* the first exception among those of a sequence of steps, if any
FirstExc(excs) ==
    LET raised == {k \in 1..Len(excs) : excs[k] # NoException}
    IN  IF raised = {} THEN NoException ELSE excs[MinOf(raised)]

\* the lines a parser goes through: those of content.split("\n") of every
\* page whose content is not empty, page after page
RECURSIVE TextLines(_)
TextLines(td) ==
    IF td = <<>> THEN <<>>
    ELSE (IF td[1] = <<>> THEN <<>> ELSE Split(td[1], "\n")) \o TextLines(Tail(td))

\* USBPDTOCParser.__parse_toc_line: line_stripped[0] and parts[0]
ParseTocLineExc(ln) ==
    LET line_stripped == Strip(ln)
    IN  IF line_stripped = <<>> THEN NoException
        ELSE IF ~IsDigit(line_stripped[1]) THEN NoException
        ELSE IndexExc(SplitMaxsplit1(line_stripped), 1)

\* USBPDSpecParser.parse on a line: line[0] in __is_section_header and
\* parts[0] in __extract_section_id
SpecParserLineExc(ln) ==
    LET line_stripped == Strip(ln)
    IN  IF ~IsSectionHeader(line_stripped) THEN NoException
        ELSE IndexExc(SplitMaxsplit1(line_stripped), 1)

\* USBPDSpecParser.__calculate_content_stats: the division by len(sections)
ContentStatsExc(sections) ==
    IF sections # <<>>
    THEN IF Len(sections) = 0 THEN "ZeroDivisionError" ELSE NoException
    ELSE NoException

\* a document has content before its first header line (or has content and
\* no header line at all)
StartsWithPreamble(td) ==
    LET lines == TextLines(td)
    IN  \E i \in 1..Len(lines) :
           /\ Strip(lines[i]) # <<>>
           /\ \A j \in 1..i : ~IsSectionHeader(Strip(lines[j]))

\* the documents that start with a preamble, before any builder has run
PreambleInit ==
    /\ pc = "start"
    /\ pages \in {d \in Docs : StartsWithPreamble([p \in 1..Len(d) |-> PageText(d[p])])}
    /\ text_data = [p \in 1..Len(pages) |-> PageText(pages[p])]
    /\ toc_parser = NewTocParser
    /\ toc_ret = None
    /\ spec_parser = NewSpecParser
    /\ spec_ret = None
    /\ toc_extractor = NewTocExtractor
    /\ content_extractor = NewContentExtractor
    /\ parse_exc = NoException

\* USBPDTOCParser.parse: the exception the loop over the lines ends with
TocParserLinesExc(td) ==
    LET lines == TextLines(td)
    IN  FirstExc([i \in 1..Len(lines) |-> ParseTocLineExc(lines[i])])

\* USBPDSpecParser.parse: the exception the loop over the lines ends with
SpecParserLinesExc(td) ==
    LET lines == TextLines(td)
    IN  FirstExc([i \in 1..Len(lines) |-> SpecParserLineExc(lines[i])])

\* toc_parser.parse(text_data)
TocParse ==
    /\ pc = "start"
    /\ \E e \in {TocParserLinesExc(text_data)} :
          /\ parse_exc' = e
          /\ IF e = NoException
             THEN /\ toc_parser' = TocParserParse(toc_parser, text_data)
                  /\ toc_ret' = toc_parser'.toc_entries
                  /\ pc' = "toc_parsed"
             ELSE /\ pc' = "raised"
                  /\ UNCHANGED <<toc_parser, toc_ret>>
    /\ UNCHANGED <<pages, text_data, spec_parser, spec_ret, toc_extractor,
                   content_extractor>>

\* toc_parser.parse(text_data) once more, on the instance that has parsed
TocParseAgain ==
    /\ pc = "toc_parsed"
    /\ \E e \in {TocParserLinesExc(text_data)} :
          /\ parse_exc' = e
          /\ IF e = NoException
             THEN /\ toc_parser' = TocParserParse(toc_parser, text_data)
                  /\ toc_ret' = toc_parser'.toc_entries
                  /\ pc' = "toc_reparsed"
             ELSE /\ pc' = "raised"
                  /\ UNCHANGED <<toc_parser, toc_ret>>
    /\ UNCHANGED <<pages, text_data, spec_parser, spec_ret, toc_extractor,
                   content_extractor>>

\* spec_parser.parse(text_data)
SpecParse ==
    /\ pc = "toc_parsed"
    /\ \E e \in {SpecParserLinesExc(text_data)} :
          IF e = NoException
          THEN \E parsed \in {SpecParserParse(spec_parser, text_data)} :
                  /\ parse_exc' = ContentStatsExc(parsed.content_sections)
                  /\ IF parse_exc' = NoException
                     THEN /\ spec_parser' = parsed
                          /\ spec_ret' = parsed.content_sections
                          /\ pc' = "spec_parsed"
                     ELSE /\ pc' = "raised"
                          /\ UNCHANGED <<spec_parser, spec_ret>>
          ELSE /\ parse_exc' = e
               /\ pc' = "raised"
               /\ UNCHANGED <<spec_parser, spec_ret>>
    /\ UNCHANGED <<pages, text_data, toc_parser, toc_ret, toc_extractor,
                   content_extractor>>

\* TOCExtractor(text_data, doc_title).extract()
TocExtract ==
    /\ pc = "spec_parsed"
    /\ toc_extractor' = TocExtractorExtract(toc_extractor, text_data)
    /\ pc' = "toc_extracted"
    /\ UNCHANGED <<pages, text_data, toc_parser, toc_ret, spec_parser, spec_ret,
                   content_extractor, parse_exc>>

\* ContentExtractor(text_data, doc_title).extract()
ContentExtract ==
    /\ pc = "toc_extracted"
    /\ content_extractor' = ContentExtractorExtract(content_extractor, text_data)
    /\ pc' = "done"
    /\ UNCHANGED <<pages, text_data, toc_parser, toc_ret, spec_parser, spec_ret,
                   toc_extractor, parse_exc>>

-----------------------------------------------------------------------------
(* The validation strategies *)

\* TOCValidationStrategy.__min_sections
MinSections == 1000
\* TOCValidationStrategy.__max_hierarchy_depth
MaxHierarchyDepth == 10
\* SpecValidationStrategy.__min_sections
SpecMinSections == 1000
\* SpecValidationStrategy.__min_content_quality, 0.75, as a fraction
MinContentQuality == [num |-> 3, den |-> 4]
\* SpecValidationStrategy._min_content_length
MinContentLength == 50
\* the floor of the average content length in __validate_content_coverage
MinAverageLength == 100
\* the ceiling of the share of empty sections, 0.05, as a fraction
MaxEmptyShare == [num |-> 1, den |-> 20]

\* entry.get(field, default)
Get(entry, field, default) == IF field \in DOMAIN entry THEN entry[field] ELSE default

\* the default "unknown" of entry.get("section_id", "unknown")
Unknown == <<"u", "n", "k", "n", "o", "w", "n">>

\* sum(f[i] for i in 1..n), added up value by value
SumOf(f) ==
    LET RECURSIVE Add(_)
        Add(vals) ==
            IF vals = {} THEN 0
            ELSE LET v == CHOOSE v \in vals : TRUE
                 IN  v * Cardinality({i \in DOMAIN f : f[i] = v}) + Add(vals \ {v})
    IN  Add({f[i] : i \in DOMAIN f})

\* num / den rounded to the nearest integer, ties to even: the rounding of
\* the format specs .0f and .1% (Python rounds the binary float, which is
\* the same wherever num / den is no exact tie)
RoundHalfEven(num, den) ==
    LET q == num \div den
        r == num % den
    IN  IF 2 * r < den THEN q
        ELSE IF 2 * r > den THEN q + 1
        ELSE IF q % 2 = 0 THEN q ELSE q + 1

\* f"{num / den:.1%}"
FormatPercent1(num, den) ==
    LET t == RoundHalfEven(1000 * num, den)
    IN  ToString(t \div 10) \o "." \o ToString(t % 10) \o "%"

\* f"{num / den:.0f}"
FormatFixed0(num, den) == ToString(RoundHalfEven(num, den))

\* _add_error without the assignment to is_valid
AddError_KeepsVerdict(self, error_message) ==
    [self EXCEPT !.validation_errors = Append(@, error_message),
                 !.error_count = @ + 1]

\* BaseValidator._add_error
AddError(self, error_message) ==
    [self EXCEPT !.validation_errors = Append(@, error_message),
                 !.error_count = @ + 1,
                 !.is_valid = "False"]

\* BaseValidator._mark_valid
MarkValid(self) == [self EXCEPT !.is_valid = "True"]

\* BaseValidator._reset
Reset(self) ==
    [self EXCEPT !.validation_errors = <<>>,
                 !.error_count = 0,
                 !.is_valid = "None"]

\* TOCValidationStrategy.__init__ (with BaseValidator.__init__)
NewTocValidator ==
    [validation_errors  |-> <<>>,
     error_count        |-> 0,
     is_valid           |-> "None",
     validated_sections |-> <<>>,
     hierarchy_issues   |-> <<>>]

\* __validate_section_count with "count <= min_sections"
TocValidateSectionCount_AtMost(self, data) ==
    IF Len(data) <= MinSections
    THEN [self |-> AddError(self, "Insufficient sections: " \o ToString(Len(data))
                                  \o " (minimum: " \o ToString(MinSections) \o ")"),
          ok   |-> FALSE, exc |-> NoException]
    ELSE [self |-> self, ok |-> TRUE, exc |-> NoException]

\* TOCValidationStrategy.__validate_section_count
TocValidateSectionCount(self, data) ==
    IF Len(data) < MinSections
    THEN [self |-> AddError(self, "Insufficient sections: " \o ToString(Len(data))
                                  \o " (minimum: " \o ToString(MinSections) \o ")"),
          ok   |-> FALSE, exc |-> NoException]
    ELSE [self |-> self, ok |-> TRUE, exc |-> NoException]

\* __validate_hierarchy with "len(issues) >= len(data) * 0.1"
TocValidateHierarchy_AtLeastTenth(self, data) ==
    LET max_level == MaxOf({0} \cup {Get(data[i], "level", 0) : i \in 1..Len(data)})
        IsIssue(entry) == /\ Get(entry, "level", 0) > 1
                          /\ ~Truthy(Get(entry, "parent_id", None))
        found  == SelectSeq(data, IsIssue)
        issues == self.hierarchy_issues
                  \o [k \in 1..Len(found) |-> Get(found[k], "section_id", Unknown)]
        self1  == [self EXCEPT !.hierarchy_issues = issues]
    IN  IF max_level > MaxHierarchyDepth
        THEN [self |-> AddError(self1, "Hierarchy too deep: " \o ToString(max_level)
                                       \o " levels (max: " \o ToString(MaxHierarchyDepth)
                                       \o ")"),
              ok   |-> FALSE, exc |-> NoException]
        ELSE IF 10 * Len(issues) >= Len(data)
        THEN [self |-> AddError(self1, "Too many hierarchy issues: "
                                       \o ToString(Len(issues))),
              ok   |-> FALSE, exc |-> NoException]
        ELSE [self |-> self1, ok |-> TRUE, exc |-> NoException]

\* __validate_hierarchy with "max_level >= max_hierarchy_depth"
TocValidateHierarchy_DepthReached(self, data) ==
    LET max_level == MaxOf({0} \cup {Get(data[i], "level", 0) : i \in 1..Len(data)})
        IsIssue(entry) == /\ Get(entry, "level", 0) > 1
                          /\ ~Truthy(Get(entry, "parent_id", None))
        found  == SelectSeq(data, IsIssue)
        issues == self.hierarchy_issues
                  \o [k \in 1..Len(found) |-> Get(found[k], "section_id", Unknown)]
        self1  == [self EXCEPT !.hierarchy_issues = issues]
    IN  IF max_level >= MaxHierarchyDepth
        THEN [self |-> AddError(self1, "Hierarchy too deep: " \o ToString(max_level)
                                       \o " levels (max: " \o ToString(MaxHierarchyDepth)
                                       \o ")"),
              ok   |-> FALSE, exc |-> NoException]
        ELSE IF 10 * Len(issues) > Len(data)
        THEN [self |-> AddError(self1, "Too many hierarchy issues: "
                                       \o ToString(Len(issues))),
              ok   |-> FALSE, exc |-> NoException]
        ELSE [self |-> self1, ok |-> TRUE, exc |-> NoException]

\* TOCValidationStrategy.__validate_hierarchy; len(issues) > len(data) * 0.1
\* is 10 * len(issues) > len(data): the float product is never below the
\* exact one
TocValidateHierarchy(self, data) ==
    LET max_level == MaxOf({0} \cup {Get(data[i], "level", 0) : i \in 1..Len(data)})
        IsIssue(entry) == /\ Get(entry, "level", 0) > 1
                          /\ ~Truthy(Get(entry, "parent_id", None))
        found  == SelectSeq(data, IsIssue)
        issues == self.hierarchy_issues
                  \o [k \in 1..Len(found) |-> Get(found[k], "section_id", Unknown)]
        self1  == [self EXCEPT !.hierarchy_issues = issues]
    IN  IF max_level > MaxHierarchyDepth
        THEN [self |-> AddError(self1, "Hierarchy too deep: " \o ToString(max_level)
                                       \o " levels (max: " \o ToString(MaxHierarchyDepth)
                                       \o ")"),
              ok   |-> FALSE, exc |-> NoException]
        ELSE IF 10 * Len(issues) > Len(data)
        THEN [self |-> AddError(self1, "Too many hierarchy issues: "
                                       \o ToString(Len(issues))),
              ok   |-> FALSE, exc |-> NoException]
        ELSE [self |-> self1, ok |-> TRUE, exc |-> NoException]

\* the section ids of data in order, each at its first occurrence only
FirstSeen(ids) ==
    IF Cardinality({ids[i] : i \in 1..Len(ids)}) = Len(ids) THEN ids
    ELSE LET IsFirst(i) == \A j \in 1..i - 1 : ids[j] # ids[i]
             order == SelectSeq([i \in 1..Len(ids) |-> i], IsFirst)
         IN  [k \in 1..Len(order) |-> ids[order[k]]]

\* TocValidateSectionIds counting the ids that occur again, not the entries
TocValidateSectionIds_DistinctIds(self, data) ==
    LET ids        == [i \in 1..Len(data) |-> Get(data[i], "section_id", <<>>)]
        duplicates == Cardinality({ids[i] : i \in {i \in 1..Len(ids) :
                                      \E j \in 1..i - 1 : ids[j] = ids[i]}})
        self1      == [self EXCEPT !.validated_sections = @ \o FirstSeen(ids)]
    IN  IF duplicates > 0
        THEN [self |-> AddError(self1, "Duplicate section IDs found: "
                                       \o ToString(duplicates)),
              ok   |-> FALSE, exc |-> NoException]
        ELSE [self |-> self1, ok |-> TRUE, exc |-> NoException]

\* TOCValidationStrategy.__validate_section_ids
TocValidateSectionIds(self, data) ==
    LET ids        == [i \in 1..Len(data) |-> Get(data[i], "section_id", <<>>)]
        duplicates == Len(ids) - Cardinality({ids[i] : i \in 1..Len(ids)})
        self1      == [self EXCEPT !.validated_sections = @ \o FirstSeen(ids)]
    IN  IF duplicates > 0
        THEN [self |-> AddError(self1, "Duplicate section IDs found: "
                                       \o ToString(duplicates)),
              ok   |-> FALSE, exc |-> NoException]
        ELSE [self |-> self1, ok |-> TRUE, exc |-> NoException]

\* the (entry, field) pairs with the field missing
MissingFields(data, required_fields) ==
    SumOf([i \in 1..Len(data) |-> Cardinality(required_fields \ DOMAIN data[i])])

\* TOCValidationStrategy.__validate_required_fields
TocValidateRequiredFields(self, data) ==
    LET missing_fields_count ==
            MissingFields(data, {"section_id", "title", "page", "level", "full_path"})
    IN  IF missing_fields_count > 0
        THEN [self |-> AddError(self, "Missing required fields in "
                                      \o ToString(missing_fields_count) \o " entries"),
              ok   |-> FALSE, exc |-> NoException]
        ELSE [self |-> self, ok |-> TRUE, exc |-> NoException]

\* TocValidatorValidate running every rule and keeping every error
TocValidatorValidate_AllRules(self, data) ==
    LET r1 == TocValidateSectionCount(Reset(self), data)
        r2 == TocValidateHierarchy(r1.self, data)
        r3 == TocValidateSectionIds(r2.self, data)
        r4 == TocValidateRequiredFields(r3.self, data)
    IN  IF r4.self.error_count = 0
        THEN [self |-> MarkValid(r4.self), ret |-> TRUE, exc |-> NoException]
        ELSE [self |-> r4.self, ret |-> FALSE, exc |-> NoException]

\* TOCValidationStrategy.validate: the instance after the call and what
\* the call returns (ret), or the exception it ends with (exc)
TocValidatorValidate(self, data) ==
    LET r1 == TocValidateSectionCount(Reset(self), data)
        r2 == TocValidateHierarchy(r1.self, data)
        r3 == TocValidateSectionIds(r2.self, data)
        r4 == TocValidateRequiredFields(r3.self, data)
        Returns(r, value) == [self |-> r.self, ret |-> value, exc |-> NoException]
        Raises(r) == [self |-> r.self, ret |-> FALSE, exc |-> r.exc]
    IN  IF r1.exc # NoException THEN Raises(r1)
        ELSE IF ~r1.ok THEN Returns(r1, FALSE)
        ELSE IF r2.exc # NoException THEN Raises(r2)
        ELSE IF ~r2.ok THEN Returns(r2, FALSE)
        ELSE IF r3.exc # NoException THEN Raises(r3)
        ELSE IF ~r3.ok THEN Returns(r3, FALSE)
        ELSE IF r4.exc # NoException THEN Raises(r4)
        ELSE IF ~r4.ok THEN Returns(r4, FALSE)
        ELSE IF r4.self.error_count = 0
        THEN [self |-> MarkValid(r4.self), ret |-> TRUE, exc |-> NoException]
        ELSE Returns(r4, FALSE)

\* SpecValidationStrategy.__init__ (with BaseValidator.__init__)
NewSpecValidator ==
    [validation_errors    |-> <<>>,
     error_count          |-> 0,
     is_valid             |-> "None",
     empty_sections       |-> <<>>,
     short_sections       |-> <<>>,
     total_content_length |-> 0]

\* __validate_section_count without the minimum: every list passes
SpecValidateSectionCount_NoMinimum(self, data) ==
    [self |-> self, ok |-> TRUE, exc |-> NoException]

\* SpecValidationStrategy.__validate_section_count
SpecValidateSectionCount(self, data) ==
    IF Len(data) < SpecMinSections
    THEN [self |-> AddError(self, "Insufficient sections: " \o ToString(Len(data))
                                  \o " (minimum: " \o ToString(SpecMinSections) \o ")"),
          ok   |-> FALSE, exc |-> NoException]
    ELSE [self |-> self, ok |-> TRUE, exc |-> NoException]

\* __validate_content_quality with "quality <= min_content_quality"
SpecValidateContentQuality_AtMost(self, data) ==
    LET content_length == [i \in 1..Len(data) |-> Len(Strip(Get(data[i], "content", <<>>)))]
        IdsWhere(Test(_)) ==
            LET Chosen(i) == Test(content_length[i])
                at == SelectSeq([i \in 1..Len(data) |-> i], Chosen)
            IN  [k \in 1..Len(at) |-> Get(data[at[k]], "section_id", Unknown)]
        IsEmpty(n) == n = 0
        IsShort(n) == n # 0 /\ n < MinContentLength
        sections_with_content ==
            Cardinality({i \in 1..Len(data) : content_length[i] # 0})
        self1 == [self EXCEPT !.total_content_length = @ + SumOf(content_length),
                              !.empty_sections = @ \o IdsWhere(IsEmpty),
                              !.short_sections = @ \o IdsWhere(IsShort)]
    IN  IF Len(data) = 0
        THEN [self |-> self1, ok |-> FALSE, exc |-> "ZeroDivisionError"]
        ELSE IF MinContentQuality.den * sections_with_content
                    <= MinContentQuality.num * Len(data)
        THEN [self |-> AddError(self1, "Content quality too low: "
                                       \o FormatPercent1(sections_with_content, Len(data))
                                       \o " (threshold: "
                                       \o FormatPercent1(MinContentQuality.num,
                                                         MinContentQuality.den)
                                       \o ")"),
              ok   |-> FALSE, exc |-> NoException]
        ELSE [self |-> self1, ok |-> TRUE, exc |-> NoException]

\* SpecValidationStrategy.__validate_content_quality; the division
\* sections_with_content / total_sections raises on an empty list, and
\* quality < 0.75 is 4 * sections_with_content < 3 * total_sections
SpecValidateContentQuality(self, data) ==
    LET content_length == [i \in 1..Len(data) |-> Len(Strip(Get(data[i], "content", <<>>)))]
        IdsWhere(Test(_)) ==
            LET Chosen(i) == Test(content_length[i])
                at == SelectSeq([i \in 1..Len(data) |-> i], Chosen)
            IN  [k \in 1..Len(at) |-> Get(data[at[k]], "section_id", Unknown)]
        IsEmpty(n) == n = 0
        IsShort(n) == n # 0 /\ n < MinContentLength
        sections_with_content ==
            Cardinality({i \in 1..Len(data) : content_length[i] # 0})
        self1 == [self EXCEPT !.total_content_length = @ + SumOf(content_length),
                              !.empty_sections = @ \o IdsWhere(IsEmpty),
                              !.short_sections = @ \o IdsWhere(IsShort)]
    IN  IF Len(data) = 0
        THEN [self |-> self1, ok |-> FALSE, exc |-> "ZeroDivisionError"]
        ELSE IF MinContentQuality.den * sections_with_content
                    < MinContentQuality.num * Len(data)
        THEN [self |-> AddError(self1, "Content quality too low: "
                                       \o FormatPercent1(sections_with_content, Len(data))
                                       \o " (threshold: "
                                       \o FormatPercent1(MinContentQuality.num,
                                                         MinContentQuality.den)
                                       \o ")"),
              ok   |-> FALSE, exc |-> NoException]
        ELSE [self |-> self1, ok |-> TRUE, exc |-> NoException]

\* SpecValidationStrategy.__validate_required_fields
SpecValidateRequiredFields(self, data) ==
    LET missing_count == MissingFields(data, {"section_id", "content", "doc_title"})
    IN  IF missing_count > 0
        THEN [self |-> AddError(self, "Missing required fields in "
                                      \o ToString(missing_count) \o " entries"),
              ok   |-> FALSE, exc |-> NoException]
        ELSE [self |-> self, ok |-> TRUE, exc |-> NoException]

\* SpecValidationStrategy.__validate_content_coverage; avg_length is 0 for an
\* empty list, avg_length < 100 is total < 100 * len(data), the division
\* len(empty) / len(data) raises on an empty list, and empty_pct > 0.05 is
\* 20 * len(empty) > len(data)
SpecValidateContentCoverage(self, data) ==
    LET avg_length == IF Len(data) > 0
                      THEN [num |-> self.total_content_length, den |-> Len(data)]
                      ELSE [num |-> 0, den |-> 1]
    IN  IF avg_length.num < MinAverageLength * avg_length.den
        THEN [self |-> AddError(self, "Average content too short: "
                                      \o FormatFixed0(avg_length.num, avg_length.den)
                                      \o " chars"),
              ok   |-> FALSE, exc |-> NoException]
        ELSE IF Len(data) = 0
        THEN [self |-> self, ok |-> FALSE, exc |-> "ZeroDivisionError"]
        ELSE IF MaxEmptyShare.den * Len(self.empty_sections) > MaxEmptyShare.num * Len(data)
        THEN [self |-> AddError(self, "Too many empty sections: "
                                      \o FormatPercent1(Len(self.empty_sections),
                                                        Len(data))),
              ok   |-> FALSE, exc |-> NoException]
        ELSE [self |-> self, ok |-> TRUE, exc |-> NoException]

\* SpecValidationStrategy.validate: the instance after the call and what
\* the call returns (ret), or the exception it ends with (exc)
SpecValidatorValidate(self, data) ==
    LET r1 == SpecValidateSectionCount(Reset(self), data)
        r2 == SpecValidateContentQuality(r1.self, data)
        r3 == SpecValidateRequiredFields(r2.self, data)
        r4 == SpecValidateContentCoverage(r3.self, data)
        Returns(r, value) == [self |-> r.self, ret |-> value, exc |-> NoException]
        Raises(r) == [self |-> r.self, ret |-> FALSE, exc |-> r.exc]
    IN  IF r1.exc # NoException THEN Raises(r1)
        ELSE IF ~r1.ok THEN Returns(r1, FALSE)
        ELSE IF r2.exc # NoException THEN Raises(r2)
        ELSE IF ~r2.ok THEN Returns(r2, FALSE)
        ELSE IF r3.exc # NoException THEN Raises(r3)
        ELSE IF ~r3.ok THEN Returns(r3, FALSE)
        ELSE IF r4.exc # NoException THEN Raises(r4)
        ELSE IF ~r4.ok THEN Returns(r4, FALSE)
        ELSE IF r4.self.error_count = 0
        THEN [self |-> MarkValid(r4.self), ret |-> TRUE, exc |-> NoException]
        ELSE Returns(r4, FALSE)

-----------------------------------------------------------------------------
(* Validation level: validate called on one instance, call after call *)

\* the decimal digits of a number, as a section id
RECURSIVE Decimal(_)
Decimal(n) ==
    LET digit == <<"0", "1", "2", "3", "4", "5", "6", "7", "8", "9">>
    IN  IF n < 10 THEN <<digit[n + 1]>> ELSE Decimal(n \div 10) \o <<digit[(n % 10) + 1]>>

\* the i-th record of a TOC list, of one of these kinds: a first-level
\* entry, a second-level entry with its parent, a second-level entry whose
\* parent_id is null ("orphan"), an entry of level 10, an entry of level 11,
\* an entry that repeats the section id "1", an entry without the title
\* field, a first-level entry without the parent_id field
TocRecord(kind, i) ==
    LET top == [doc_title  |-> DocTitle,
                section_id |-> Decimal(i),
                title      |-> <<"T">>,
                page       |-> 1,
                level      |-> 1,
                parent_id  |-> None,
                full_path  |-> Decimal(i) \o <<" ", "T">>]
        sub == [top EXCEPT !.section_id = Decimal(i) \o <<".", "1">>,
                           !.level = 2,
                           !.parent_id = Decimal(i),
                           !.full_path = Decimal(i) \o <<".", "1", " ", "T">>]
    IN  CASE kind = "top"      -> top
          [] kind = "sub"      -> sub
          [] kind = "orphan"   -> [sub EXCEPT !.parent_id = None]
          [] kind = "deepest"  -> [sub EXCEPT !.level = MaxHierarchyDepth]
          [] kind = "deep"     -> [sub EXCEPT !.level = MaxHierarchyDepth + 1]
          [] kind = "repeat"   -> [top EXCEPT !.section_id = Decimal(1)]
          [] kind = "untitled" -> [f \in DOMAIN top \ {"title"} |-> top[f]]
          [] kind = "noparent" -> [f \in DOMAIN top \ {"parent_id"} |-> top[f]]

\* a content of n characters
Text(n) == [i \in 1..n |-> "x"]

LongText == Text(MinAverageLength)
LongerText == Text(2 * MinAverageLength)

\* the i-th record of a content list, of one of these kinds: content of 100
\* characters, of 200 characters, of 1 character, empty content, blank
\* content, a record without the doc_title field
SpecRecord(kind, i) ==
    LET long == [doc_title  |-> DocTitle,
                 section_id |-> Decimal(i),
                 content    |-> LongText]
    IN  CASE kind = "long"     -> long
          [] kind = "longer"   -> [long EXCEPT !.content = LongerText]
          [] kind = "short"    -> [long EXCEPT !.content = Text(1)]
          [] kind = "empty"    -> [long EXCEPT !.content = <<>>]
          [] kind = "blank"    -> [long EXCEPT !.content = <<" ">>]
          [] kind = "untitled" -> [f \in DOMAIN long \ {"doc_title"} |-> long[f]]

\* the kind of the i-th record of a list made of runs of records of one kind
RECURSIVE KindAt(_, _)
KindAt(runs, i) ==
    IF i <= runs[1].count THEN runs[1].kind ELSE KindAt(Tail(runs), i - runs[1].count)

RECURSIVE RunsLen(_)
RunsLen(runs) == IF runs = <<>> THEN 0 ELSE runs[1].count + RunsLen(Tail(runs))

Run(kind, count) == [kind |-> kind, count |-> count]

\* the lists the validators are called with, each as its runs
TocRuns ==
    { <<>>,
      << Run("top", MinSections - 1) >>,
      << Run("top", MinSections) >>,
      << Run("sub", MinSections - 1), Run("deepest", 1) >>,
      << Run("orphan", MinSections \div 10), Run("top", MinSections - MinSections \div 10) >>,
      << Run("orphan", MinSections \div 10 + 1),
         Run("top", MinSections - MinSections \div 10 - 1) >>,
      << Run("top", MinSections - 1), Run("deep", 1) >>,
      << Run("top", MinSections - 1), Run("repeat", 1) >>,
      << Run("top", MinSections - 1), Run("untitled", 1) >>,
      << Run("top", MinSections - 1), Run("noparent", 1) >> }

SpecRuns ==
    { <<>>,
      << Run("long", SpecMinSections - 1) >>,
      << Run("long", SpecMinSections) >>,
      << Run("short", SpecMinSections) >>,
      << Run("longer", SpecMinSections - SpecMinSections \div 20),
         Run("empty", SpecMinSections \div 20) >>,
      << Run("longer", SpecMinSections - SpecMinSections \div 20 - 1),
         Run("blank", SpecMinSections \div 20 + 1) >>,
      << Run("long", 3 * (SpecMinSections \div 5)), Run("empty", 2 * (SpecMinSections \div 5)) >>,
      << Run("longer", 3 * (SpecMinSections \div 4)), Run("empty", SpecMinSections \div 4) >>,
      << Run("long", SpecMinSections - 1), Run("short", 1) >>,
      << Run("long", SpecMinSections - 1), Run("untitled", 1) >> }

\* runs without those of no record
NonEmptyRuns(runs) ==
    LET IsRun(r) == r.count > 0
    IN  SelectSeq(runs, IsRun)

\* lists that fail no rule, one rule, or several rules at once. The TOC
\* rules are the count, the hierarchy, the section ids, the required
\* fields: lists of 999 and of 1000 entries, with entries of level 11 or
\* with more than a tenth of second-level entries without parent, with
\* entries that repeat the section id 1, with an entry without title
RuleTocRuns ==
    { NonEmptyRuns(<< Run("top", count - level.count - repeats - untitled),
                      level,
                      Run("repeat", repeats),
                      Run("untitled", untitled) >>) :
        count \in {MinSections - 1, MinSections},
        level \in {Run("deep", 0), Run("deep", 1), Run("deep", 2),
                   Run("orphan", MinSections \div 10 + 1)},
        repeats \in 0..MaxRepeats,
        untitled \in 0..1 }

\* the content rules are the count, the quality, the required fields, the
\* coverage: lists of 999 and of 1000 sections of 200, 100 or 1 characters,
\* with 5%, 25% or 40% of sections empty or blank, with a section without
\* doc_title
RuleSpecRuns ==
    { NonEmptyRuns(<< Run(kind, count - hollow.count - untitled),
                      hollow,
                      Run("untitled", untitled) >>) :
        count \in {SpecMinSections - 1, SpecMinSections},
        kind \in {"longer", "long", "short"},
        hollow \in { Run(h, SpecMinSections \div d) :
                       h \in {"empty", "blank"}, d \in {20, 4} }
                   \cup {Run("empty", 0), Run("empty", 2 * (SpecMinSections \div 5))},
        untitled \in 0..1 }

\* the list a sequence of runs stands for
TocData(runs) == [i \in 1..RunsLen(runs) |-> TocRecord(KindAt(runs, i), i)]
SpecData(runs) == [i \in 1..RunsLen(runs) |-> SpecRecord(KindAt(runs, i), i)]

ValIdle ==
    /\ vpc = "idle"
    /\ toc_validator = NewTocValidator
    /\ toc_valid = FALSE
    /\ toc_data = <<>>
    /\ spec_validator = NewSpecValidator
    /\ spec_valid = FALSE
    /\ spec_data = <<>>
    /\ calls = 0
    /\ val_exc = NoException

\* a freshly constructed validator of either kind; vpc tells which of the
\* two instances the calls go to
ValInit ==
    /\ vpc \in {"toc", "spec"}
    /\ toc_validator = NewTocValidator
    /\ toc_valid = FALSE
    /\ toc_data = <<>>
    /\ spec_validator = NewSpecValidator
    /\ spec_valid = FALSE
    /\ spec_data = <<>>
    /\ calls = 0
    /\ val_exc = NoException

\* toc_validator.validate(data), data one of the lists of inputs; toc_data
\* keeps the runs of data
TocValidateOn(inputs, max_calls) ==
    /\ vpc = "toc"
    /\ calls < max_calls
    /\ \E runs \in inputs :
          \E r \in {TocValidatorValidate(toc_validator, TocData(runs))} :
              /\ toc_validator' = r.self
              /\ toc_valid' = IF r.exc = NoException THEN r.ret ELSE toc_valid
              /\ val_exc' = r.exc
              /\ toc_data' = runs
    /\ calls' = calls + 1
    /\ UNCHANGED <<vpc, spec_validator, spec_valid, spec_data>>

TocValidate == TocValidateOn(TocRuns, MaxCalls)

\* spec_validator.validate(data), data one of the lists of inputs;
\* spec_data keeps the runs of data
SpecValidateOn(inputs, max_calls) ==
    /\ vpc = "spec"
    /\ calls < max_calls
    /\ \E runs \in inputs :
          \E r \in {SpecValidatorValidate(spec_validator, SpecData(runs))} :
              /\ spec_validator' = r.self
              /\ spec_valid' = IF r.exc = NoException THEN r.ret ELSE spec_valid
              /\ val_exc' = r.exc
              /\ spec_data' = runs
    /\ calls' = calls + 1
    /\ UNCHANGED <<vpc, toc_validator, toc_valid, toc_data>>

SpecValidate == SpecValidateOn(SpecRuns, MaxCalls)

-----------------------------------------------------------------------------
(* The application: USBPDParserOrchestrator.execute *)

\* a time of datetime.now()
Now == "<now>"

\* the names of the steps, as the orchestrator hands them to start_step
StepNames ==
    << "Extracting PDF Text",
       "Parsing Table of Contents",
       "Parsing Specification Content",
       "Validating Results",
       "Writing Output Files",
       "Generating Validation Report",
       "Generating Execution Summary" >>

\* the banner initialize() prints
InitBanner == "INITIALIZING USB PD PARSER ORCHESTRATOR"

\* USBPDParserOrchestrator.__init__, with ProgressTracker.__init__ and
\* StatisticsCollector.__init__; raised is the exception execute ended
\* with, if any
NewOrchestrator ==
    [is_initialized  |-> FALSE,
     total_pages     |-> 0,
     pages_processed |-> 0,
     start_time      |-> "None",
     end_time        |-> "None",
     steps_total     |-> Len(StepNames),
     steps_completed |-> 0,
     current_step    |-> "",
     stats           |-> [extraction |-> EmptyDict,
                          parsing    |-> EmptyDict,
                          validation |-> EmptyDict,
                          output     |-> EmptyDict],
     raised          |-> NoException]

\* ProgressTracker.start_step
StartStep(self, step_name) ==
    [self EXCEPT !.steps_completed = @ + 1, !.current_step = step_name]

\* the line start_step prints: "[STEP k/7] name..."
StepLine(self, step_name) ==
    [step |-> self.steps_completed + 1, of |-> self.steps_total, name |-> step_name]

\* StatisticsCollector.add_extraction_stats; coverage_pct, rounded to two
\* places, is kept in hundredths of a percent
AddExtractionStats(self, total_pages, pages_processed) ==
    [self EXCEPT !.stats.extraction =
        [total_pages     |-> total_pages,
         pages_processed |-> pages_processed,
         coverage_pct    |-> RoundHalfEven(pages_processed * 10000, total_pages)]]

\* StatisticsCollector.add_parsing_stats
AddParsingStats(self, toc_count, spec_count) ==
    [self EXCEPT !.stats.parsing =
        [toc_sections |-> toc_count, spec_sections |-> spec_count]]

\* AddValidationStats with overall_valid true when either verdict is
AddValidationStats_Either(self, t_valid, s_valid) ==
    [self EXCEPT !.stats.validation =
        [toc_valid     |-> t_valid,
         spec_valid    |-> s_valid,
         overall_valid |-> IF t_valid THEN t_valid ELSE s_valid]]

\* StatisticsCollector.add_validation_stats
AddValidationStats(self, t_valid, s_valid) ==
    [self EXCEPT !.stats.validation =
        [toc_valid     |-> t_valid,
         spec_valid    |-> s_valid,
         overall_valid |-> IF t_valid THEN s_valid ELSE t_valid]]

\* StatisticsCollector.add_output_stats
AddOutputStats(self, files_written) ==
    [self EXCEPT !.stats.output =
        [files_written |-> files_written, file_count |-> Len(files_written)]]

\* JSONLWriter.__init__ (with BaseOutputWriter.__init__); bytes_written, the
\* byte count of the lines written, is not followed
NewJSONLWriter ==
    [write_count   |-> 0,
     is_written    |-> FALSE,
     lines_written |-> 0,
     write_errors  |-> <<>>]

\* ValidationReportWriter.__init__ (with BaseOutputWriter.__init__);
\* report_size and generation_time are not followed
NewReportWriter ==
    [write_count |-> 0,
     is_written  |-> FALSE,
     report_data |-> EmptyDict]

\* USBPDParserOrchestrator._create_writers
NewWriters ==
    [toc     |-> NewJSONLWriter,
     spec    |-> NewJSONLWriter,
     report  |-> NewReportWriter,
     summary |-> NewReportWriter]

\* a file that does not exist; the content of a file is the sequence of
\* its lines (JSONL) or the one document in it (JSON)
NoFile == [exists |-> FALSE, content |-> <<>>]

FileOf(content) == [exists |-> TRUE, content |-> content]

NoFiles == [toc |-> NoFile, spec |-> NoFile, report |-> NoFile, summary |-> NoFile]

\* BaseOutputWriter._mark_as_written
MarkAsWritten(self, count) ==
    [self EXCEPT !.write_count = count, !.is_written = TRUE]

\* where a write call fails: before the file is opened (fail_at 0: the
\* directory or the file cannot be created), at the entry fail_at
\* (json.dumps or f.write raises), or nowhere (fail_at past the last entry)
NoFailure(data) == Len(data) + 1

\* the failures followed: those at the first MaxFailAt entries
FailuresOf(data) == (0..MinOf({MaxFailAt, Len(data)})) \cup {NoFailure(data)}

\* JSONLWriter.write: the instance and the file after the call and what the
\* call returns; the file is opened with 'w', each entry is a line
JSONLWriterWrite(self, file, data, fail_at) ==
    LET written == IF fail_at = 0 THEN 0 ELSE fail_at - 1
        self1   == [self EXCEPT !.lines_written = @ + written]
    IN  IF fail_at = NoFailure(data)
        THEN [self |-> MarkAsWritten(self1, Len(data)),
              file |-> FileOf(data),
              ret  |-> TRUE]
        ELSE [self |-> [self1 EXCEPT !.write_errors = Append(@, "Write error: <e>")],
              file |-> IF fail_at = 0 THEN file ELSE FileOf(SubSeq(data, 1, written)),
              ret  |-> FALSE]

\* ValidationReportWriter.__enhance_report
EnhanceReport(data, output_path) ==
    [f \in DOMAIN data \cup {"metadata"} |->
        IF f = "metadata"
        THEN [generated_at |-> Now, output_path |-> output_path, format |-> "JSON"]
        ELSE data[f]]

\* ValidationReportWriter.write; failed tells that creating the directory,
\* opening the file or writing raised (the file is then as it was, or empty)
ReportWriterWrite(self, file, data, output_path, failed) ==
    IF failed
    THEN [self |-> self, file |-> file, ret |-> FALSE]
    ELSE [self |-> MarkAsWritten([self EXCEPT !.report_data =
                                      EnhanceReport(data, output_path)], 1),
          file |-> FileOf(<<EnhanceReport(data, output_path)>>),
          ret  |-> TRUE]

\* USBPDParserOrchestrator._get_output_paths (the file names)
OutputPaths ==
    [toc     |-> "usb_pd_toc.jsonl",
     spec    |-> "usb_pd_spec.jsonl",
     report  |-> "validation_report.json",
     summary |-> "execution_summary.json"]

\* USBPDParserOrchestrator._build_validation_report; coverage_percentage in
\* hundredths of a percent
BuildValidationReport(self, toc, spec) ==
    [document          |-> DocTitle,
     validation_date   |-> Now,
     summary           |->
        [total_toc_sections     |-> Len(toc),
         total_content_sections |-> Len(spec),
         page_coverage          |->
            [total_pages         |-> self.total_pages,
             pages_covered       |-> self.pages_processed,
             pages_missing       |-> self.total_pages - self.pages_processed,
             coverage_percentage |->
                 RoundHalfEven(self.pages_processed * 10000, self.total_pages)]],
     validation_status |->
        IF self.stats.validation.overall_valid THEN "PASS" ELSE "FAIL"]

\* USBPDParserOrchestrator._build_execution_summary, after its assignment
\* to end_time
BuildExecutionSummary(self) ==
    [execution_metadata |-> [start_time       |-> self.start_time,
                             end_time         |-> self.end_time,
                             duration_seconds |-> "<duration>"],
     statistics         |-> self.stats,
     output_files       |-> <<OutputPaths.toc, OutputPaths.spec, OutputPaths.report,
                              OutputPaths.summary>>]

AppIdle ==
    /\ orchestrator = NewOrchestrator
    /\ step_log = <<>>
    /\ writers = NewWriters
    /\ files = NoFiles
    /\ runner = [rpc |-> "idle"]

\* the documents execute is run on
ExecDocs == DocsOf(MaxPages, MaxExecLines)

\* an orchestrator as constructed, or after the caller's initialize(), and
\* a PDF file of some pages
ExecInit ==
    /\ pc = "created"
    /\ pages \in ExecDocs
    /\ text_data = <<>>
    /\ toc_parser = NewTocParser
    /\ toc_ret = None
    /\ spec_parser = NewSpecParser
    /\ spec_ret = None
    /\ toc_extractor = NewTocExtractor
    /\ content_extractor = NewContentExtractor
    /\ parse_exc = NoException
    /\ orchestrator \in {NewOrchestrator, [NewOrchestrator EXCEPT !.is_initialized = TRUE]}
    /\ step_log = IF orchestrator.is_initialized
                  THEN <<[step |-> 0, of |-> 0, name |-> InitBanner]>> ELSE <<>>
    /\ writers = NewWriters
    /\ files = NoFiles
    /\ runner = [rpc |-> "idle"]

\* execute up to its first step: initialize() if it has not been called
\* (which creates the parsers, the writers and the validators), then the
\* start time
ExecuteBegin ==
    /\ pc = "created"
    /\ IF ~orchestrator.is_initialized
       THEN /\ toc_parser' = NewTocParser
            /\ spec_parser' = NewSpecParser
            /\ writers' = NewWriters
            /\ toc_validator' = NewTocValidator
            /\ spec_validator' = NewSpecValidator
            /\ step_log' = Append(step_log, [step |-> 0, of |-> 0, name |-> InitBanner])
       ELSE UNCHANGED <<toc_parser, spec_parser, writers, toc_validator,
                        spec_validator, step_log>>
    /\ orchestrator' = [orchestrator EXCEPT !.is_initialized = TRUE,
                                            !.start_time = Now]
    /\ pc' = "executing"
    /\ UNCHANGED <<pages, text_data, toc_ret, spec_ret, toc_extractor,
                   content_extractor, parse_exc>>
    /\ UNCHANGED <<vpc, toc_valid, toc_data, spec_valid, spec_data, calls, val_exc>>
    /\ UNCHANGED <<files, runner>>

\* USBPDParserOrchestrator._execute_extraction with PDFTextExtractor.extract:
\* the text of every page, "" for a page without text; extract divides by
\* the number of pages
ExecuteExtraction ==
    /\ pc = "executing"
    /\ step_log' = Append(step_log, StepLine(orchestrator, StepNames[1]))
    /\ LET text            == [p \in 1..Len(pages) |-> PageText(pages[p])]
           total_pages     == Len(pages)
           pages_processed == Cardinality({p \in 1..Len(pages) : text[p] # <<>>})
           started         == StartStep(orchestrator, StepNames[1])
       IN  IF total_pages = 0
           THEN /\ orchestrator' = [started EXCEPT !.raised = "ZeroDivisionError"]
                /\ pc' = "raised"
                /\ UNCHANGED text_data
           ELSE /\ orchestrator' =
                      AddExtractionStats([started EXCEPT
                                             !.total_pages = total_pages,
                                             !.pages_processed = pages_processed],
                                         total_pages, pages_processed)
                /\ pc' = "start"
                /\ text_data' = text
    /\ UNCHANGED <<pages, toc_parser, toc_ret, spec_parser, spec_ret, toc_extractor,
                   content_extractor, parse_exc>>
    /\ UNCHANGED <<valVars, writers, files, runner>>

\* USBPDParserOrchestrator._execute_toc_parsing
ExecuteTocParsing ==
    /\ TocParse
    /\ step_log' = Append(step_log, StepLine(orchestrator, StepNames[2]))
    /\ orchestrator' = [StartStep(orchestrator, StepNames[2]) EXCEPT !.raised = parse_exc']
    /\ UNCHANGED <<valVars, writers, files, runner>>

\* USBPDParserOrchestrator._execute_spec_parsing
ExecuteSpecParsing ==
    /\ SpecParse
    /\ step_log' = Append(step_log, StepLine(orchestrator, StepNames[3]))
    /\ orchestrator' =
          IF parse_exc' = NoException
          THEN AddParsingStats(StartStep(orchestrator, StepNames[3]),
                               Len(toc_ret), Len(spec_ret'))
          ELSE [StartStep(orchestrator, StepNames[3]) EXCEPT !.raised = parse_exc']
    /\ UNCHANGED <<valVars, writers, files, runner>>

\* USBPDParserOrchestrator._execute_validation: the TOC validator on what the
\* TOC parser returned, then the content validator on what the content
\* parser returned, then the verdicts into the statistics; an exception of
\* a validate call ends the step
ExecuteValidation ==
    /\ pc = "spec_parsed"
    /\ step_log' = Append(step_log, StepLine(orchestrator, StepNames[4]))
    /\ \E t \in {TocValidatorValidate(toc_validator, toc_ret)} :
          /\ toc_validator' = t.self
          /\ toc_valid' = IF t.exc = NoException THEN t.ret ELSE toc_valid
          /\ IF t.exc = NoException
             THEN \E c \in {SpecValidatorValidate(spec_validator, spec_ret)} :
                     /\ spec_validator' = c.self
                     /\ spec_valid' = IF c.exc = NoException THEN c.ret ELSE spec_valid
                     /\ val_exc' = c.exc
                     /\ calls' = calls + 2
                     /\ pc' = IF c.exc = NoException THEN "validated" ELSE "raised"
                     /\ orchestrator' =
                           IF c.exc = NoException
                           THEN AddValidationStats(StartStep(orchestrator, StepNames[4]),
                                                   t.ret, c.ret)
                           ELSE [StartStep(orchestrator, StepNames[4]) EXCEPT
                                    !.raised = c.exc]
             ELSE /\ val_exc' = t.exc
                  /\ calls' = calls + 1
                  /\ pc' = "raised"
                  /\ orchestrator' = [StartStep(orchestrator, StepNames[4]) EXCEPT
                                         !.raised = t.exc]
                  /\ UNCHANGED <<spec_validator, spec_valid>>
    /\ UNCHANGED <<vpc, toc_data, spec_data>>
    /\ UNCHANGED <<pages, text_data, toc_parser, toc_ret, spec_parser, spec_ret,
                   toc_extractor, content_extractor, parse_exc>>

\* ExecuteWriting skipped when a validator has failed
ExecuteWriting_SkippedIfInvalid ==
    /\ pc = "validated"
    /\ IF toc_valid /\ spec_valid
       THEN /\ step_log' = Append(step_log, StepLine(orchestrator, StepNames[5]))
            /\ writers' = [writers EXCEPT
                              !.toc = MarkAsWritten(@, Len(toc_ret)),
                              !.spec = MarkAsWritten(@, Len(spec_ret))]
            /\ files' = [files EXCEPT !.toc = FileOf(toc_ret), !.spec = FileOf(spec_ret)]
            /\ orchestrator' = AddOutputStats(StartStep(orchestrator, StepNames[5]),
                                              <<OutputPaths.toc, OutputPaths.spec>>)
       ELSE UNCHANGED <<step_log, writers, files, orchestrator>>
    /\ pc' = "written"
    /\ UNCHANGED <<pages, text_data, toc_parser, toc_ret, spec_parser, spec_ret,
                   toc_extractor, content_extractor, parse_exc>>
    /\ UNCHANGED <<valVars, runner>>

\* USBPDParserOrchestrator._execute_writing with _write_toc and _write_spec
ExecuteWriting ==
    /\ pc = "validated"
    /\ step_log' = Append(step_log, StepLine(orchestrator, StepNames[5]))
    /\ \E toc_fail \in FailuresOf(toc_ret), spec_fail \in FailuresOf(spec_ret) :
          \E t \in {JSONLWriterWrite(writers.toc, files.toc, toc_ret, toc_fail)},
             c \in {JSONLWriterWrite(writers.spec, files.spec, spec_ret, spec_fail)} :
              /\ writers' = [writers EXCEPT !.toc = t.self, !.spec = c.self]
              /\ files' = [files EXCEPT !.toc = t.file, !.spec = c.file]
              /\ orchestrator' =
                    AddOutputStats(StartStep(orchestrator, StepNames[5]),
                                   (IF t.ret THEN <<OutputPaths.toc>> ELSE <<>>)
                                   \o (IF c.ret THEN <<OutputPaths.spec>> ELSE <<>>))
    /\ pc' = "written"
    /\ UNCHANGED <<pages, text_data, toc_parser, toc_ret, spec_parser, spec_ret,
                   toc_extractor, content_extractor, parse_exc>>
    /\ UNCHANGED <<valVars, runner>>

\* USBPDParserOrchestrator._execute_report_generation
ExecuteReportGeneration ==
    /\ pc = "written"
    /\ step_log' = Append(step_log, StepLine(orchestrator, StepNames[6]))
    /\ orchestrator' = StartStep(orchestrator, StepNames[6])
    /\ \E failed \in BOOLEAN :
          \E w \in {ReportWriterWrite(writers.report, files.report,
                                      BuildValidationReport(orchestrator, toc_ret, spec_ret),
                                      OutputPaths.report, failed)} :
              /\ writers' = [writers EXCEPT !.report = w.self]
              /\ files' = [files EXCEPT !.report = w.file]
    /\ pc' = "reported"
    /\ UNCHANGED <<pages, text_data, toc_parser, toc_ret, spec_parser, spec_ret,
                   toc_extractor, content_extractor, parse_exc>>
    /\ UNCHANGED <<valVars, runner>>

\* USBPDParserOrchestrator._execute_summary_generation
ExecuteSummaryGeneration ==
    /\ pc = "reported"
    /\ step_log' = Append(step_log, StepLine(orchestrator, StepNames[7]))
    /\ orchestrator' = [StartStep(orchestrator, StepNames[7]) EXCEPT
                           !.end_time = IF @ = "None" THEN Now ELSE @]
    /\ \E failed \in BOOLEAN :
          \E w \in {ReportWriterWrite(writers.summary, files.summary,
                                      BuildExecutionSummary(orchestrator'),
                                      OutputPaths.summary, failed)} :
              /\ writers' = [writers EXCEPT !.summary = w.self]
              /\ files' = [files EXCEPT !.summary = w.file]
    /\ pc' = "summarised"
    /\ UNCHANGED <<pages, text_data, toc_parser, toc_ret, spec_parser, spec_ret,
                   toc_extractor, content_extractor, parse_exc>>
    /\ UNCHANGED <<valVars, runner>>

\* the end of execute: the end time and the final summary
ExecuteEnd ==
    /\ pc = "summarised"
    /\ orchestrator' = [orchestrator EXCEPT !.end_time = Now]
    /\ pc' = "finished"
    /\ UNCHANGED <<pages, text_data, toc_parser, toc_ret, spec_parser, spec_ret,
                   toc_extractor, content_extractor, parse_exc>>
    /\ UNCHANGED <<valVars, step_log, writers, files, runner>>

\* a document of count pages, each of one header line "<p> <title>"; the
\* last repeats lines have the number 1 again
HeaderPages(count, title, repeats) ==
    [p \in 1..count |->
        << Decimal(IF p > count - repeats THEN 1 ELSE p) \o <<" ">> \o title >>]

\* documents of as many sections as the validators ask for: with long and
\* with short titles, without and with repeated numbers
LargeDocs ==
    { HeaderPages(MinSections, title, repeats) :
        title \in {LongText, Text(1)}, repeats \in 0..MaxRepeats }

\* what USBPDTOCParser.parse returns for a document of one header line a
\* page: the entry of each line
TocOfHeaderPages(pgs) == [p \in 1..Len(pgs) |-> ParseTocLine(pgs[p][1], p)]

\* what USBPDSpecParser.parse returns for a document of one titled header
\* line a page: each header flushes the section before it, whose buffer
\* holds its title
SpecOfHeaderPages(pgs) ==
    [p \in 1..Len(pgs) |->
        CreateSectionEntry(ExtractSectionId(Strip(pgs[p][1])),
                           <<SplitMaxsplit1(Strip(pgs[p][1]))[2]>>)]

\* execute after its third step, on a large document
ReportInit ==
    /\ pc = "spec_parsed"
    /\ pages \in LargeDocs
    /\ text_data = [p \in 1..Len(pages) |-> PageText(pages[p])]
    /\ toc_ret = TocOfHeaderPages(pages)
    /\ toc_parser = [toc_entries      |-> toc_ret,
                     hierarchy_levels |-> 1 :> Len(toc_ret),
                     max_depth        |-> 1,
                     pattern_matched  |-> Len(toc_ret),
                     total_items      |-> Len(toc_ret),
                     is_parsed        |-> TRUE]
    /\ spec_ret = SpecOfHeaderPages(pages)
    /\ spec_parser = [content_sections      |-> spec_ret,
                      total_content_length  |->
                          SumOf([i \in 1..Len(spec_ret) |-> Len(spec_ret[i].content)]),
                      sections_with_content |-> Len(spec_ret),
                      buffer_size           |-> 0,
                      total_items           |-> Len(spec_ret),
                      is_parsed             |-> TRUE]
    /\ toc_extractor = NewTocExtractor
    /\ content_extractor = NewContentExtractor
    /\ parse_exc = NoException
    /\ LET begun  == [NewOrchestrator EXCEPT !.is_initialized = TRUE,
                                             !.start_time = Now]
           step_1 == AddExtractionStats(
                         [StartStep(begun, StepNames[1]) EXCEPT
                             !.total_pages = Len(pages),
                             !.pages_processed = Len(pages)],
                         Len(pages), Len(pages))
           step_2 == StartStep(step_1, StepNames[2])
       IN  /\ orchestrator = AddParsingStats(StartStep(step_2, StepNames[3]),
                                             Len(toc_ret), Len(spec_ret))
           /\ step_log = << [step |-> 0, of |-> 0, name |-> InitBanner],
                            StepLine(begun, StepNames[1]),
                            StepLine(step_1, StepNames[2]),
                            StepLine(step_2, StepNames[3]) >>
    /\ writers = NewWriters
    /\ files = NoFiles
    /\ runner = [rpc |-> "idle"]

\* the lists _write_toc is given: the first n entries of a TOC, for the n
\* up to the entries at which a failure is followed
WriteLists ==
    LET toc == [n \in 1..MaxFailAt |-> ParseTocLine(<<"1", " ", "a">>, n)]
    IN  {SubSeq(toc, 1, n) : n \in 0..MaxFailAt}

\* a writer as _create_writers makes it, no file written, nothing printed
WriterInit ==
    /\ orchestrator = NewOrchestrator
    /\ step_log = <<>>
    /\ writers = NewWriters
    /\ files = NoFiles
    /\ runner = [rpc |-> "idle"]

\* USBPDParserOrchestrator._write_toc: writer.write(data) on the "toc"
\* writer, and the line it prints about it
WriteToc ==
    /\ Len(step_log) < MaxWrites
    /\ \E data \in WriteLists :
          \E fail_at \in FailuresOf(data) :
              \E w \in {JSONLWriterWrite(writers.toc, files.toc, data, fail_at)} :
                  /\ writers' = [writers EXCEPT !.toc = w.self]
                  /\ files' = [files EXCEPT !.toc = w.file]
                  /\ step_log' = Append(step_log,
                                        [written |-> w.ret,
                                         lines   |-> w.self.lines_written])
    /\ UNCHANGED <<orchestrator, runner>>

-----------------------------------------------------------------------------
(* The runner script *)

\* USBPDRunner.__init__: the two scripts, by the file names of their paths
ParserScript == "usb_pd_parser.py"
CheckScript == "check_sections.py"

\* what subprocess.run([sys.executable, script_path], cwd=working_dir,
\* check=True, ...) can end with: the script exits with status 0; it exits
\* with another status (the interpreter does so too when the script file is
\* missing), which check=True turns into CalledProcessError; the
\* interpreter or the working directory is missing; any other OSError
Outcomes == {"ok", "CalledProcessError", "FileNotFoundError", "OSError"}

\* USBPDRunner.run_subprocess, given what the subprocess ends with
RunSubprocess(outcome) ==
    IF outcome = "ok" THEN [ret |-> TRUE, exc |-> NoException]
    ELSE IF outcome \in {"CalledProcessError", "FileNotFoundError"}
    THEN [ret |-> FALSE, exc |-> NoException]
    ELSE [ret |-> FALSE, exc |-> outcome]

\* runner.execute(parse_only, check_only) has been called; the outcomes are
\* those the two scripts will have if they are run
RunnerInit ==
    /\ runner \in [rpc         : {"called"},
                   parse_only  : BOOLEAN,
                   check_only  : BOOLEAN,
                   outcome     : [{ParserScript, CheckScript} -> Outcomes],
                   ran         : {<<>>},
                   success     : {FALSE},
                   ret         : {"None"},
                   raised      : {NoException}]

\* execute dispatching on parse_only before check_only
RunnerExecuteBegin_ParseOnlyFirst ==
    /\ runner.rpc = "called"
    /\ runner' = [runner EXCEPT !.success = TRUE,
                                !.rpc = IF runner.parse_only THEN "run_parser"
                                        ELSE IF runner.check_only THEN "run_validation"
                                        ELSE "run_parser"]

\* execute, lines 99-105: success = True and the choice of the branch
RunnerExecuteBegin ==
    /\ runner.rpc = "called"
    /\ runner' = [runner EXCEPT !.success = TRUE,
                                !.rpc = IF runner.check_only THEN "run_validation"
                                        ELSE "run_parser"]

\* success = self.run_parser(), in the parse_only branch (line 104) or in
\* the branch that runs both (lines 107-108)
RunnerRunParser ==
    /\ runner.rpc = "run_parser"
    /\ LET r == RunSubprocess(runner.outcome[ParserScript])
       IN  runner' = [runner EXCEPT
                         !.ran = Append(@, ParserScript),
                         !.success = IF r.exc = NoException THEN r.ret ELSE @,
                         !.raised = r.exc,
                         !.rpc = IF r.exc # NoException THEN "raised"
                                 ELSE IF runner.parse_only THEN "return"
                                 ELSE IF r.ret THEN "run_validation"
                                 ELSE "return"]

\* success = self.run_validation() (line 102 or line 109)
RunnerRunValidation ==
    /\ runner.rpc = "run_validation"
    /\ LET r == RunSubprocess(runner.outcome[CheckScript])
       IN  runner' = [runner EXCEPT
                         !.ran = Append(@, CheckScript),
                         !.success = IF r.exc = NoException THEN r.ret ELSE @,
                         !.raised = r.exc,
                         !.rpc = IF r.exc # NoException THEN "raised" ELSE "return"]

\* return success
RunnerExecuteEnd ==
    /\ runner.rpc = "return"
    /\ runner' = [runner EXCEPT !.ret = IF runner.success THEN "True" ELSE "False",
                                !.rpc = "returned"]

\* the application but for the runner, which has been called
AppRunner ==
    /\ orchestrator = NewOrchestrator
    /\ step_log = <<>>
    /\ writers = NewWriters
    /\ files = NoFiles
    /\ RunnerInit

-----------------------------------------------------------------------------
(* Specifications *)

Init == LineIdle /\ DocInit /\ ValIdle /\ AppIdle

Next ==
    \/ TocParse /\ UNCHANGED <<lineVars, valVars, appVars>>
    \/ SpecParse /\ UNCHANGED <<lineVars, valVars, appVars>>
    \/ TocExtract /\ UNCHANGED <<lineVars, valVars, appVars>>
    \/ ContentExtract /\ UNCHANGED <<lineVars, valVars, appVars>>

Spec == Init /\ [][Next]_vars

InitLine == LineInit /\ DocIdle /\ ValIdle /\ AppIdle

NextLine ==
    \/ TocParserLineStep /\ UNCHANGED <<docVars, valVars, appVars>>
    \/ TocExtractorLineStep /\ UNCHANGED <<docVars, valVars, appVars>>
    \/ SpecParserLineStep /\ UNCHANGED <<docVars, valVars, appVars>>
    \/ TextProcessorLineStep /\ UNCHANGED <<docVars, valVars, appVars>>

SpecLine == InitLine /\ [][NextLine]_vars

\* a builder instance used for a second call
InitReuse == LineIdle /\ DocInit /\ ValIdle /\ AppIdle

NextReuse ==
    \/ TocParse /\ UNCHANGED <<lineVars, valVars, appVars>>
    \/ TocParseAgain /\ UNCHANGED <<lineVars, valVars, appVars>>

SpecReuse == InitReuse /\ [][NextReuse]_vars

\* the pipeline of the orchestrator: both parsers, then both validators
InitPipeline == LineIdle /\ DocInit /\ ValIdle /\ AppIdle

NextPipeline ==
    \/ TocParse /\ UNCHANGED <<lineVars, valVars, appVars>>
    \/ SpecParse /\ UNCHANGED <<lineVars, valVars, appVars>>
    \/ ExecuteValidation /\ UNCHANGED <<lineVars, writers, files, runner>>

SpecPipeline == InitPipeline /\ [][NextPipeline]_vars

\* both content builders on documents that start with a preamble
InitPreamble == LineIdle /\ PreambleInit /\ ValIdle /\ AppIdle

SpecPreamble == InitPreamble /\ [][Next]_vars

\* one call of USBPDParserOrchestrator.execute
InitExecute == LineIdle /\ ExecInit /\ ValIdle

NextExecute ==
    \/ ExecuteBegin /\ UNCHANGED lineVars
    \/ ExecuteExtraction /\ UNCHANGED lineVars
    \/ ExecuteTocParsing /\ UNCHANGED lineVars
    \/ ExecuteSpecParsing /\ UNCHANGED lineVars
    \/ ExecuteValidation /\ UNCHANGED <<lineVars, writers, files, runner>>
    \/ ExecuteWriting /\ UNCHANGED lineVars
    \/ ExecuteReportGeneration /\ UNCHANGED lineVars
    \/ ExecuteSummaryGeneration /\ UNCHANGED lineVars
    \/ ExecuteEnd /\ UNCHANGED lineVars

SpecExecute == InitExecute /\ [][NextExecute]_vars

\* the steps of execute from the validation on, on large documents
InitReport == LineIdle /\ ReportInit /\ ValIdle

NextReport ==
    \/ ExecuteValidation /\ UNCHANGED <<lineVars, writers, files, runner>>
    \/ ExecuteWriting /\ UNCHANGED lineVars
    \/ ExecuteReportGeneration /\ UNCHANGED lineVars
    \/ ExecuteSummaryGeneration /\ UNCHANGED lineVars
    \/ ExecuteEnd /\ UNCHANGED lineVars

SpecReport == InitReport /\ [][NextReport]_vars

InitVal == LineIdle /\ DocIdle /\ ValInit /\ AppIdle

NextVal ==
    \/ TocValidate /\ UNCHANGED <<lineVars, docVars, appVars>>
    \/ SpecValidate /\ UNCHANGED <<lineVars, docVars, appVars>>

SpecVal == InitVal /\ [][NextVal]_vars

\* one call of a freshly constructed validator, on lists that fail several
\* rules at once
NextRules ==
    \/ TocValidateOn(RuleTocRuns, 1) /\ UNCHANGED <<lineVars, docVars, appVars>>
    \/ SpecValidateOn(RuleSpecRuns, 1) /\ UNCHANGED <<lineVars, docVars, appVars>>

SpecRules == InitVal /\ [][NextRules]_vars

\* one call of USBPDRunner.execute
InitRunner == LineIdle /\ DocIdle /\ ValIdle /\ AppRunner

NextRunner ==
    \/ RunnerExecuteBegin /\ UNCHANGED <<lineVars, docVars, valVars, orchestrator, step_log, writers, files>>
    \/ RunnerRunParser /\ UNCHANGED <<lineVars, docVars, valVars, orchestrator, step_log, writers, files>>
    \/ RunnerRunValidation /\ UNCHANGED <<lineVars, docVars, valVars, orchestrator, step_log, writers, files>>
    \/ RunnerExecuteEnd /\ UNCHANGED <<lineVars, docVars, valVars, orchestrator, step_log, writers, files>>

SpecRunner == InitRunner /\ [][NextRunner]_vars

\* write calls, one after the other, on one JSONLWriter
InitWriter == LineIdle /\ DocIdle /\ ValIdle /\ WriterInit

NextWriter == WriteToc /\ UNCHANGED <<lineVars, docVars, valVars>>

SpecWriter == InitWriter /\ [][NextWriter]_vars

-----------------------------------------------------------------------------
(* What the claims speak of, stated on the document's lines *)

\* the lines of the document in page order, each with the number of its page
RECURSIVE FlatFrom(_, _)
FlatFrom(pgs, p) ==
    IF p > Len(pgs) THEN <<>>
    ELSE [i \in 1..Len(pgs[p]) |-> [page |-> p, text |-> pgs[p][i]]] \o FlatFrom(pgs, p + 1)

Flat == FlatFrom(pages, 1)

\* the elements of a finite set of numbers in ascending order
RECURSIVE Ascending(_)
Ascending(S) == IF S = {} THEN <<>> ELSE <<MinOf(S)>> \o Ascending(S \ {MinOf(S)})

\* a line the header classifier recognises as opening a section
IsHeaderLine(ln) == LET t == Strip(ln) IN t # <<>> /\ IsDigit(t[1])

\* a line that is empty once trimmed
IsBlankLine(ln) == \A i \in 1..Len(ln) : IsSpace(ln[i])

\* the first whitespace-delimited token of the trimmed line
TokenOf(ln) ==
    LET t == Strip(ln)
    IN  SubSeq(t, 1, CHOOSE k \in 0..Len(t) :
                        /\ \A i \in 1..k : ~IsSpace(t[i])
                        /\ k < Len(t) => IsSpace(t[k + 1]))

\* the remainder of the trimmed line after the first whitespace run
TitleOf(ln) ==
    LET t == Strip(ln)
        n == Len(TokenOf(ln))
    IN  IF n = Len(t) THEN <<>>
        ELSE SubSeq(t, CHOOSE k \in n + 2..Len(t) :
                          /\ ~IsSpace(t[k])
                          /\ \A i \in n + 1..k - 1 : IsSpace(t[i]), Len(t))

\* tok without the dots it ends in
DotsStripped(tok) ==
    SubSeq(tok, 1, CHOOSE k \in 0..Len(tok) :
                      /\ k > 0 => tok[k] # "."
                      /\ \A i \in k + 1..Len(tok) : tok[i] = ".")

\* the section id a header line carries
HeaderIdOf(ln) == DotsStripped(TokenOf(ln))

HeaderIdx == {i \in 1..Len(Flat) : IsHeaderLine(Flat[i].text)}
NonBlankIdx == {i \in 1..Len(Flat) : ~IsBlankLine(Flat[i].text)}

\* the line after the section that header line i opens
SectionEnd(i) ==
    LET later == {j \in HeaderIdx : j > i}
    IN  IF later = {} THEN Len(Flat) + 1 ELSE MinOf(later)

\* the title of header line i (if it has one) and the trimmed non-empty
\* non-header lines after it, up to the next header line or the end
SectionParts(i) ==
    LET title == TitleOf(Flat[i].text)
        body  == Ascending({j \in i + 1..SectionEnd(i) - 1 : j \in NonBlankIdx})
    IN  (IF title = <<>> THEN <<>> ELSE <<title>>)
        \o [k \in 1..Len(body) |-> Strip(Flat[body[k]].text)]

\* the header lines that have a title or some content
Productive == Ascending({i \in HeaderIdx : SectionParts(i) # <<>>})

ExpectedSections ==
    [k \in 1..Len(Productive) |->
        [section_id |-> HeaderIdOf(Flat[Productive[k]].text),
         content    |-> Join(SectionParts(Productive[k]), <<" ">>)]]

\* the ContentSection fields of a builder's records
AsSections(items) ==
    [k \in 1..Len(items) |->
        [section_id |-> items[k].section_id, content |-> items[k].content]]

EndsWith(s, t) == Len(t) <= Len(s) /\ SubSeq(s, Len(s) - Len(t) + 1, Len(s)) = t

SpecParsed == pc \in {"spec_parsed", "toc_extracted", "done"}
TocParsed == pc \in {"toc_parsed", "spec_parsed", "toc_extracted", "done"}
TocExtracted == pc \in {"toc_extracted", "done"}
ContentExtracted == pc = "done"

-----------------------------------------------------------------------------
(* C1: final flush.  When the document has a header line and its last     *)
(* non-empty line is no header, the content builder's result ends with     *)
(* the section of the last header line, and that section's content ends    *)
(* with the last line: the open section is not dropped at the end.         *)

C1_Case == HeaderIdx # {} /\ NonBlankIdx # {} /\ MaxOf(NonBlankIdx) \notin HeaderIdx

C1_EndsWithTrailingSection(items) ==
    /\ items # <<>>
    /\ items[Len(items)].section_id = HeaderIdOf(Flat[MaxOf(HeaderIdx)].text)
    /\ EndsWith(items[Len(items)].content, Strip(Flat[MaxOf(NonBlankIdx)].text))

C1_FinalFlush ==
    /\ (SpecParsed /\ C1_Case) => C1_EndsWithTrailingSection(spec_ret)
    /\ (ContentExtracted /\ C1_Case)
          => C1_EndsWithTrailingSection(content_extractor.extracted_items)

\* a document of two sections, the second one open when the stream ends
C1_Witness ==
    /\ ContentExtracted
    /\ C1_Case
    /\ Len(spec_ret) = 2
    /\ Len(content_extractor.extracted_items) = 2
    /\ spec_ret[2].content = <<"c", " ", "b">>

-----------------------------------------------------------------------------
(* C2: every emitted ContentSection's content is the single-space join of  *)
(* its header's title (if any) and the trimmed non-empty non-header lines  *)
(* up to the next header or the end, in document order; the example of the *)
(* specification yields exactly ("1", "Intro Some text"),                  *)
(* ("1.1", "Background More text").                                        *)

ExampleSections ==
    << [section_id |-> <<"1">>,
        content    |-> <<"I", "n", "t", "r", "o", " ",
                         "S", "o", "m", "e", " ", "t", "e", "x", "t">>],
       [section_id |-> <<"1", ".", "1">>,
        content    |-> <<"B", "a", "c", "k", "g", "r", "o", "u", "n", "d", " ",
                         "M", "o", "r", "e", " ", "t", "e", "x", "t">>] >>

C2_ContentIsJoin ==
    SpecParsed =>
        /\ AsSections(spec_ret) = ExpectedSections
        /\ pages = ExamplePages => AsSections(spec_ret) = ExampleSections

\* the example of the specification, parsed
C2_Witness ==
    /\ SpecParsed
    /\ pages = ExamplePages
    /\ Len(spec_ret) = 2
    /\ spec_ret[1].content = ExampleSections[1].content

-----------------------------------------------------------------------------
(* C3: the open section survives page boundaries.  Moving the page breaks  *)
(* (here: removing them all, which every placement of them can be compared *)
(* with) or inserting a page of empty text anywhere leaves the list of     *)
(* ContentSections as it is, and a page of empty text adds no TOC entry.   *)

\* the same lines on a single page
OnOnePage(pgs) ==
    LET f == FlatFrom(pgs, 1) IN << [i \in 1..Len(f) |-> f[i].text] >>

\* pgs with a page of no text inserted before page k
WithEmptyPage(pgs, k) == SubSeq(pgs, 1, k - 1) \o << <<>> >> \o SubSeq(pgs, k, Len(pgs))

TextOf(pgs) == [p \in 1..Len(pgs) |-> PageText(pgs[p])]

SectionsOf(pgs) == SpecParserParse(NewSpecParser, TextOf(pgs)).content_sections
TocOf(pgs) == TocParserParse(NewTocParser, TextOf(pgs)).toc_entries

\* the entries without their page numbers
Unpaged(entries) ==
    [k \in 1..Len(entries) |->
        [section_id |-> entries[k].section_id, title |-> entries[k].title]]

C3_PageBreaksDoNotMatter ==
    /\ SpecParsed =>
        /\ spec_ret = SectionsOf(OnOnePage(pages))
        /\ \A k \in 1..Len(pages) + 1 : spec_ret = SectionsOf(WithEmptyPage(pages, k))
    /\ TocParsed =>
        /\ \A i \in 1..Len(toc_ret) : text_data[toc_ret[i].page] # <<>>
        /\ \A k \in 1..Len(pages) + 1 :
              Unpaged(TocOf(WithEmptyPage(pages, k))) = Unpaged(toc_ret)

\* a section opened on page 1 whose content continues on page 2
C3_Witness ==
    /\ SpecParsed
    /\ Len(pages) = 2
    /\ pages[1] = << <<"1", " ", "a">> >>
    /\ pages[2] = << <<"b">> >>
    /\ AsSections(spec_ret) = << [section_id |-> <<"1">>, content |-> <<"a", " ", "b">>] >>
    /\ Len(toc_ret) = 1

-----------------------------------------------------------------------------
(* C4: no zero-content records.  Every ContentSection has content that is  *)
(* non-empty once trimmed, and a header with no title and no non-empty     *)
(* non-header line before the next header or the end yields no record.     *)

C4_NoneEmpty(items) ==
    /\ \A i \in 1..Len(items) : Strip(items[i].content) # <<>>
    /\ Len(items) = Len(Productive)

C4_NoZeroContent ==
    /\ SpecParsed => C4_NoneEmpty(spec_ret)
    /\ ContentExtracted => C4_NoneEmpty(content_extractor.extracted_items)

\* a bare header followed at once by the next header: one record, not two
C4_Witness ==
    /\ ContentExtracted
    /\ Cardinality(HeaderIdx) = 2
    /\ Flat[MinOf(HeaderIdx)].text = <<"1">>
    /\ Len(spec_ret) = 1
    /\ Len(content_extractor.extracted_items) = 1

-----------------------------------------------------------------------------
(* C10: the TOC builder emits exactly one TOCEntry per header line and     *)
(* nothing for any other line, in document order, each with the number of  *)
(* the page its line is on; lines that repeat a section id keep their own  *)
(* entries.                                                                *)

Headers == Ascending(HeaderIdx)

C10_OnePerHeader(entries) ==
    /\ Len(entries) = Len(Headers)
    /\ \A k \in 1..Len(entries) :
          /\ entries[k].page = Flat[Headers[k]].page
          /\ entries[k].section_id = HeaderIdOf(Flat[Headers[k]].text)
          /\ entries[k].title = TitleOf(Flat[Headers[k]].text)

C10_OneEntryPerHeaderInOrder ==
    /\ TocParsed => C10_OnePerHeader(toc_ret)
    /\ TocExtracted => C10_OnePerHeader(toc_extractor.extracted_items)

\* the same section id on page 1 and on page 2, with a line between them
C10_Witness ==
    /\ TocExtracted
    /\ Len(Flat) = 3
    /\ Len(toc_ret) = 2
    /\ toc_ret[1].section_id = toc_ret[2].section_id
    /\ toc_ret[1].page = 1
    /\ toc_ret[2].page = 2
    /\ Len(toc_extractor.extracted_items) = 2

-----------------------------------------------------------------------------
(* C7: a trimmed line is classified as a header by both builders iff it is *)
(* non-empty and its first character is one of the ASCII digits 0-9; a     *)
(* line that starts with any other character, a non-ASCII digit included,  *)
(* is no header.                                                           *)

C7_StartsWithAsciiDigit(ln) ==
    LET t == Strip(ln) IN t # <<>> /\ t[1] \in AsciiDigits

C7_HeaderIffAsciiDigit ==
    lpc = "done" =>
        /\ (toc_line # NoEntry) = C7_StartsWithAsciiDigit(line)
        /\ (ext_line # NoEntry) = C7_StartsWithAsciiDigit(line)
        /\ spec_line.is_header = C7_StartsWithAsciiDigit(line)
        /\ tp_line.is_header = C7_StartsWithAsciiDigit(line)

-----------------------------------------------------------------------------
(* C8: for every header line the split yields section_id = the first       *)
(* whitespace-delimited token of the trimmed line without its trailing     *)
(* dots, and title = the remainder of the line after the first whitespace  *)
(* run (empty when there is none); the TOC builders, the content builder   *)
(* and TextProcessor derive the same section_id from the line.             *)

C8_HeaderSplit ==
    (lpc = "done" /\ toc_line # NoEntry) =>
        /\ toc_line.section_id = HeaderIdOf(line)
        /\ toc_line.title = TitleOf(line)
        /\ ext_line # NoEntry
        /\ ext_line.section_id = toc_line.section_id
        /\ ext_line.title = toc_line.title
        /\ spec_line.is_header
        /\ spec_line.section_id = toc_line.section_id
        /\ tp_line.section_id = toc_line.section_id

\* the line "1. a": section_id "1", title "a"
C8_Witness ==
    /\ lpc = "done"
    /\ line = <<"1", ".", " ", "a">>
    /\ toc_line.section_id = <<"1">>
    /\ toc_line.title = <<"a">>
    /\ spec_line.section_id = <<"1">>

-----------------------------------------------------------------------------
(* C9: every TOCEntry has level = (number of dots in section_id) + 1 >= 1, *)
(* and parent_id is null exactly when section_id has no dot, otherwise     *)
(* section_id without its last dot-separated component and the dot before  *)
(* it.                                                                     *)

C9_Dots(sid) == {i \in 1..Len(sid) : sid[i] = "."}

C9_Entry(e) ==
    /\ e.level = Cardinality(C9_Dots(e.section_id)) + 1
    /\ e.level >= 1
    /\ (e.parent_id = None) <=> (C9_Dots(e.section_id) = {})
    /\ C9_Dots(e.section_id) # {} =>
          e.parent_id = SubSeq(e.section_id, 1, MaxOf(C9_Dots(e.section_id)) - 1)

C9_LevelAndParent ==
    (lpc = "done" /\ toc_line # NoEntry) =>
        /\ C9_Entry(toc_line)
        /\ C9_Entry(ext_line)
        /\ C9_Entry(tp_line)

\* the line "1..1": level 3, parent "1."
C9_Witness ==
    /\ lpc = "done"
    /\ toc_line # NoEntry
    /\ toc_line.section_id = <<"1", ".", ".", "1">>
    /\ toc_line.level = 3
    /\ toc_line.parent_id = <<"1", ".">>

-----------------------------------------------------------------------------
(* C5: TOCValidationStrategy.validate is a function of its data only: a
   call that follows another call on the same instance returns, for its
   data, the verdict and the error list that a freshly constructed instance
   returns for the same data. *)
C5_FreshToc == TocValidatorValidate(NewTocValidator, TocData(toc_data))

C5_TocValidateDependsOnDataOnly ==
    (vpc = "toc" /\ calls >= 2) =>
        /\ toc_valid = C5_FreshToc.ret
        /\ toc_validator.validation_errors = C5_FreshToc.self.validation_errors

(* C6: SpecValidationStrategy.validate is a function of its data only: a
   call that follows another call on the same instance returns, for its
   data, the verdict and the error list that a freshly constructed instance
   returns for the same data. *)
C6_FreshSpec == SpecValidatorValidate(NewSpecValidator, SpecData(spec_data))

C6_SpecValidateDependsOnDataOnly ==
    (vpc = "spec" /\ calls >= 2) =>
        /\ spec_valid = C6_FreshSpec.ret
        /\ spec_validator.validation_errors = C6_FreshSpec.self.validation_errors

-----------------------------------------------------------------------------
(* C12: after every parse call on a USBPDTOCParser, a second call on the
   same instance included, max_depth is the maximum level among the entries
   the call returned (0 when it returned none), hierarchy_levels[l] is the
   number of returned entries of level l, and the counts add up to the
   length of the returned list, which is total_items. *)
C12_LevelsOf(entries) == {entries[i].level : i \in 1..Len(entries)}

C12_CountOf(entries, l) == Cardinality({i \in 1..Len(entries) : entries[i].level = l})

C12_CountersMatchReturned ==
    pc \in {"toc_parsed", "toc_reparsed"} =>
        /\ toc_parser.max_depth = MaxOf({0} \cup C12_LevelsOf(toc_ret))
        /\ DOMAIN toc_parser.hierarchy_levels = C12_LevelsOf(toc_ret)
        /\ \A l \in C12_LevelsOf(toc_ret) :
              toc_parser.hierarchy_levels[l] = C12_CountOf(toc_ret, l)
        /\ SumOf([l \in DOMAIN toc_parser.hierarchy_levels |->
                     toc_parser.hierarchy_levels[l]]) = Len(toc_ret)
        /\ toc_parser.total_items = Len(toc_ret)

-----------------------------------------------------------------------------
(* C13: after every validate call of either validation strategy, is_valid
   is a boolean (not the unset value), equals the value validate returned,
   and is true exactly when the call recorded no error (error_count is 0
   and validation_errors is empty). *)
C13_Verdict(validator, returned) ==
    /\ validator.is_valid \in {"True", "False"}
    /\ (validator.is_valid = "True") = returned
    /\ returned = (validator.error_count = 0 /\ validator.validation_errors = <<>>)

C13_VerdictIsRecorded ==
    (calls >= 1 /\ val_exc = NoException) =>
        /\ vpc = "toc" => C13_Verdict(toc_validator, toc_valid)
        /\ vpc = "spec" => C13_Verdict(spec_validator, spec_valid)

\* a second call on the instance, which passes
C13_Witness ==
    /\ vpc = "spec"
    /\ calls = 2
    /\ spec_valid
    /\ spec_validator.is_valid = "True"
    /\ spec_validator.error_count = 0

-----------------------------------------------------------------------------
(* C14: with either validator, a list of fewer than 1000 records makes
   validate return false, with is_valid false and the error
   'Insufficient sections: <count> (minimum: 1000)' recorded; a list of
   1000 records or more records no such error. *)
C14_Message(count) ==
    "Insufficient sections: " \o ToString(count) \o " (minimum: 1000)"

C14_Recorded(validator, count) ==
    \E k \in 1..Len(validator.validation_errors) :
        validator.validation_errors[k] = C14_Message(count)

C14_Rule(validator, returned, count) ==
    /\ count < 1000 =>
          /\ ~returned
          /\ validator.is_valid = "False"
          /\ C14_Recorded(validator, count)
    /\ count >= 1000 => ~C14_Recorded(validator, count)

C14_MinimumVolume ==
    (calls >= 1 /\ val_exc = NoException) =>
        /\ vpc = "toc" => C14_Rule(toc_validator, toc_valid, RunsLen(toc_data))
        /\ vpc = "spec" => C14_Rule(spec_validator, spec_valid, RunsLen(spec_data))

\* 999 well-formed TOC entries
C14_Witness ==
    /\ vpc = "toc"
    /\ calls >= 1
    /\ toc_data = << Run("top", 999) >>
    /\ ~toc_valid
    /\ toc_validator.is_valid = "False"
    /\ toc_validator.validation_errors = << "Insufficient sections: 999 (minimum: 1000)" >>

-----------------------------------------------------------------------------
(* C15: the content-quality rule compares the fraction of sections with
   non-empty trimmed content against the threshold and fails when the
   fraction is below it. The threshold of the claim is 0.5
   (C15_QualityBelowHalf); the threshold of SpecValidationStrategy is 0.75
   (C15_QualityBelowThreeQuarters): a list of at least 1000 sections of
   which 40% have empty trimmed content makes validate return false with
   the content-quality error, and so does every list with fewer than three
   quarters of its sections non-empty, and no other. *)
C15_HasContent(record) == Strip(record.content) # <<>>

C15_WithContent ==
    SumOf([k \in 1..Len(spec_data) |->
              IF C15_HasContent(SpecRecord(spec_data[k].kind, 1))
              THEN spec_data[k].count ELSE 0])

C15_QualityRecorded ==
    \E k \in 1..Len(spec_validator.validation_errors) :
        spec_validator.validation_errors[k] =
            "Content quality too low: "
                \o FormatPercent1(C15_WithContent, RunsLen(spec_data))
                \o " (threshold: 75.0%)"

C15_Reached == vpc = "spec" /\ calls >= 1 /\ RunsLen(spec_data) >= 1000

C15_QualityBelowHalf ==
    C15_Reached =>
        /\ C15_QualityRecorded <=> 2 * C15_WithContent < RunsLen(spec_data)
        /\ C15_QualityRecorded => ~spec_valid

C15_QualityBelowThreeQuarters ==
    C15_Reached =>
        /\ C15_QualityRecorded <=> 4 * C15_WithContent < 3 * RunsLen(spec_data)
        /\ C15_QualityRecorded =>
              /\ ~spec_valid
              /\ Len(spec_validator.validation_errors) = 1
        /\ 5 * (RunsLen(spec_data) - C15_WithContent) = 2 * RunsLen(spec_data) =>
              C15_QualityRecorded

\* 1000 sections, 400 of them with empty content
C15_Witness ==
    /\ vpc = "spec"
    /\ calls >= 1
    /\ spec_data = << Run("long", 600), Run("empty", 400) >>
    /\ ~spec_valid
    /\ spec_validator.validation_errors =
           << "Content quality too low: 60.0% (threshold: 75.0%)" >>

-----------------------------------------------------------------------------
(* C16: on a freshly constructed TOCValidationStrategy and a list that
   passes the minimum-volume and hierarchy-bound rules, the
   parent-completeness rule fails exactly when more than 10% of the entries
   have level > 1 and a null parent_id; exactly 10% passes, and an entry
   with level > 1 and a parent is not counted. *)
C16_Orphaned(entry) ==
    /\ entry.level > 1
    /\ "parent_id" \in DOMAIN entry
    /\ entry.parent_id = None

C16_Orphans ==
    SumOf([k \in 1..Len(toc_data) |->
              IF C16_Orphaned(TocRecord(toc_data[k].kind, 1))
              THEN toc_data[k].count ELSE 0])

C16_MaxLevel ==
    MaxOf({0} \cup {TocRecord(toc_data[k].kind, 1).level : k \in 1..Len(toc_data)})

C16_Recorded ==
    \E k \in 1..Len(toc_validator.validation_errors) :
        toc_validator.validation_errors[k] =
            "Too many hierarchy issues: " \o ToString(C16_Orphans)

C16_ParentCompleteness ==
    (vpc = "toc" /\ calls = 1 /\ RunsLen(toc_data) >= 1000 /\ C16_MaxLevel <= 10) =>
        /\ C16_Recorded <=> 10 * C16_Orphans > RunsLen(toc_data)
        /\ C16_Recorded => ~toc_valid
        /\ Len(toc_validator.hierarchy_issues) = C16_Orphans

\* 100 of 1000 entries are of level 2 without a parent: the list passes
C16_Witness ==
    /\ vpc = "toc"
    /\ calls = 1
    /\ toc_data = << Run("orphan", 100), Run("top", 900) >>
    /\ Len(toc_validator.hierarchy_issues) = 100
    /\ toc_valid

-----------------------------------------------------------------------------
(* C17: TOC validation returns false for every list in which some entry
   lacks one of the fields section_id, title, page, level, full_path or
   parent_id (parent_id may be null, but the field must be there). *)
C17_Complete(entry) ==
    {"section_id", "title", "page", "level", "full_path", "parent_id"} \subseteq DOMAIN entry

C17_SomeEntryIncomplete ==
    \E k \in 1..Len(toc_data) : ~C17_Complete(TocRecord(toc_data[k].kind, 1))

C17_IncompleteEntryFails ==
    (vpc = "toc" /\ calls >= 1 /\ C17_SomeEntryIncomplete) => ~toc_valid

-----------------------------------------------------------------------------
(* C18: on a freshly constructed TOCValidationStrategy and a list that
   passes the minimum-volume rule, the hierarchy-bound rule passes exactly
   when the maximum level over all entries is at most 10; an entry of level
   11 or more makes validate return false with the error
   'Hierarchy too deep: <max level> levels (max: 10)'. *)
C18_MaxLevel ==
    MaxOf({0} \cup {TocRecord(toc_data[k].kind, 1).level : k \in 1..Len(toc_data)})

C18_Recorded ==
    \E k \in 1..Len(toc_validator.validation_errors) :
        toc_validator.validation_errors[k] =
            "Hierarchy too deep: " \o ToString(C18_MaxLevel) \o " levels (max: 10)"

C18_HierarchyBound ==
    (vpc = "toc" /\ calls = 1 /\ RunsLen(toc_data) >= 1000) =>
        /\ C18_Recorded <=> C18_MaxLevel > 10
        /\ C18_MaxLevel >= 11 => ~toc_valid /\ toc_validator.is_valid = "False"

\* one entry of level 11 among 1000
C18_Witness ==
    /\ vpc = "toc"
    /\ calls = 1
    /\ toc_data = << Run("top", 999), Run("deep", 1) >>
    /\ ~toc_valid
    /\ toc_validator.validation_errors = << "Hierarchy too deep: 11 levels (max: 10)" >>

-----------------------------------------------------------------------------
(* C19: on a freshly constructed SpecValidationStrategy and a list that
   passes the minimum-volume, content-quality and required-fields rules,
   validation fails if the average (trimmed) content length does not exceed
   100 characters, fails if more than 5% of the sections have zero-length
   (trimmed) content, and passes if the average is above 100 and at most 5%
   of the sections are of zero length. *)
C19_IsEmpty(record) == Strip(record.content) = <<>>

C19_ZeroLength ==
    SumOf([k \in 1..Len(spec_data) |->
              IF C19_IsEmpty(SpecRecord(spec_data[k].kind, 1))
              THEN spec_data[k].count ELSE 0])

C19_TotalLength ==
    SumOf([k \in 1..Len(spec_data) |->
              spec_data[k].count * Len(Strip(SpecRecord(spec_data[k].kind, 1).content))])

C19_AllFields ==
    \A k \in 1..Len(spec_data) :
        {"section_id", "content", "doc_title"}
            \subseteq DOMAIN SpecRecord(spec_data[k].kind, 1)

C19_PassesEarlierRules ==
    /\ RunsLen(spec_data) >= 1000
    /\ 4 * (RunsLen(spec_data) - C19_ZeroLength) >= 3 * RunsLen(spec_data)
    /\ C19_AllFields

C19_Coverage ==
    (vpc = "spec" /\ calls = 1 /\ C19_PassesEarlierRules) =>
        /\ C19_TotalLength <= 100 * RunsLen(spec_data) => ~spec_valid
        /\ 20 * C19_ZeroLength > RunsLen(spec_data) => ~spec_valid
        /\ (/\ C19_TotalLength > 100 * RunsLen(spec_data)
            /\ 20 * C19_ZeroLength <= RunsLen(spec_data)) => spec_valid

-----------------------------------------------------------------------------
(* C20: the engine never raises for malformed content. For every page-text
   mapping (empty, whitespace-only, without a header, or with any numbered
   lines) parse of both parsers returns a list of entries, and validate of
   both strategies, on what the parsers returned (the empty list included),
   returns a boolean, sets is_valid to it, and reports a failure through the
   recorded errors only: no call ends with an exception. *)
C20_IsListOf(ret, fields) ==
    /\ DOMAIN ret = 1..Len(ret)
    /\ \A i \in 1..Len(ret) : DOMAIN ret[i] = fields

C20_Reported(validator, returned) ==
    /\ returned \in BOOLEAN
    /\ validator.is_valid = (IF returned THEN "True" ELSE "False")
    /\ ~returned => validator.validation_errors # <<>>

C20_NeverRaises ==
    /\ pc # "raised"
    /\ parse_exc = NoException
    /\ val_exc = NoException
    /\ pc \in {"toc_parsed", "spec_parsed", "validated"} =>
          C20_IsListOf(toc_ret, {"doc_title", "section_id", "title", "page", "level",
                                 "parent_id", "full_path"})
    /\ pc \in {"spec_parsed", "validated"} =>
          C20_IsListOf(spec_ret, {"doc_title", "section_id", "content"})
    /\ pc = "validated" =>
          /\ C20_Reported(toc_validator, toc_valid)
          /\ C20_Reported(spec_validator, spec_valid)

\* a page of one blank line: both parsers return the empty list and both
\* validators report it as an error
C20_Witness ==
    /\ pc = "validated"
    /\ pages = << << <<" ">> >> >>
    /\ toc_ret = <<>>
    /\ spec_ret = <<>>
    /\ ~toc_valid
    /\ ~spec_valid
    /\ spec_validator.validation_errors = << "Insufficient sections: 0 (minimum: 1000)" >>

-----------------------------------------------------------------------------
\* the step lines printed so far, without the banner of initialize()
C21_Steps ==
    LET IsStep(l) == l.step > 0
    IN  SelectSeq(step_log, IsStep)

\* the steps started so far are the first ones of the fixed list, each
\* once, numbered 1, 2, ..., after one banner of initialize()
C21_InOrder ==
    /\ \A k \in 1..Len(C21_Steps) :
          C21_Steps[k] = [step |-> k, of |-> Len(StepNames), name |-> StepNames[k]]
    /\ Len(step_log) <= Len(C21_Steps) + 1
    /\ pc # "created" => /\ step_log # <<>>
                          /\ step_log[1].name = InitBanner
                          /\ orchestrator.is_initialized
    /\ orchestrator.steps_completed = Len(C21_Steps)

\* how many steps have been started at each place of execute
C21_StepsAt ==
    [created |-> 0, executing |-> 0, start |-> 1, toc_parsed |-> 2, spec_parsed |-> 3,
     validated |-> 4, written |-> 5, reported |-> 6, summarised |-> 7, finished |-> 7]

\* the text PDFTextExtractor.extract returns for the file
C21_Extracted == [p \in 1..Len(pages) |-> PageText(pages[p])]

\* both parsers were given the text the extraction step returned
C21_SameText ==
    /\ pc \in {"toc_parsed", "spec_parsed", "validated", "written", "reported",
                "summarised", "finished"}
          => /\ text_data = C21_Extracted
             /\ toc_ret = TocParserParse(NewTocParser, C21_Extracted).toc_entries
    /\ pc \in {"spec_parsed", "validated", "written", "reported", "summarised",
                "finished"}
          => spec_ret = SpecParserParse(NewSpecParser, C21_Extracted).content_sections

\* the steps after validation have run on a verdict of either kind: the
\* files they were asked to write exist unless the write itself failed
C21_AfterValidation ==
    pc \in {"written", "reported", "summarised", "finished"}
        => /\ orchestrator.stats.validation.overall_valid = (toc_valid /\ spec_valid)
           /\ orchestrator.stats.output.file_count
                 = Cardinality({f \in {"toc", "spec"} : files[f].exists
                                                        /\ writers[f].is_written})

(* C21: one call of USBPDParserOrchestrator.execute starts the steps text
   extraction, TOC parsing, content parsing, validation, output writing,
   report generation and summary generation in this order, each once and
   each after the one before it has ended, with initialize() run first when
   it had not been called; both parsers are given the text the extraction
   returned; writing, report and summary run whatever the validators
   returned; at its end the call has done all seven steps; only the
   extraction raises (on a file of no pages), and then no later step runs *)
C21_StepsInFixedOrder ==
    /\ C21_InOrder
    /\ pc # "raised" => Len(C21_Steps) = C21_StepsAt[pc]
    /\ pc = "raised" => /\ Len(C21_Steps) = 1
                        /\ Len(pages) = 0
                        /\ orchestrator.raised = "ZeroDivisionError"
    /\ C21_SameText
    /\ C21_AfterValidation

\* execute has come to its end on a document with a header line whose TOC
\* validation failed, and the TOC file was written
C21_Witness ==
    /\ pc = "finished"
    /\ orchestrator.steps_completed = Len(StepNames)
    /\ toc_ret # <<>>
    /\ ~toc_valid
    /\ files.toc.exists
    /\ files.summary.exists

-----------------------------------------------------------------------------
\* the status the report is to carry for the two verdicts of the run
C28_Status == IF toc_valid /\ spec_valid THEN "PASS" ELSE "FAIL"

(* C28: in a run of execute, the overall_valid of the statistics is the
   conjunction of what the two validate calls returned, and the validation
   report, as built, as kept by its writer and as written to the file,
   carries validation_status "PASS" when both calls returned true and "FAIL"
   otherwise *)
C28_StatusIsConjunction ==
    /\ pc \in {"validated", "written", "reported", "summarised", "finished"}
          => /\ orchestrator.stats.validation.toc_valid = toc_valid
             /\ orchestrator.stats.validation.spec_valid = spec_valid
             /\ orchestrator.stats.validation.overall_valid = (toc_valid /\ spec_valid)
             /\ toc_valid = (toc_validator.is_valid = "True")
             /\ spec_valid = (spec_validator.is_valid = "True")
             /\ BuildValidationReport(orchestrator, toc_ret, spec_ret).validation_status
                   = C28_Status
    /\ pc \in {"reported", "summarised", "finished"} /\ writers.report.is_written
          => /\ writers.report.report_data.validation_status = C28_Status
             /\ files.report.exists
             /\ files.report.content[1].validation_status = C28_Status
    /\ pc \in {"summarised", "finished"} /\ writers.summary.is_written
          => files.summary.content[1].statistics.validation.overall_valid
                = (toc_valid /\ spec_valid)

\* a run in which both validators passed has written a report with PASS
C28_Witness ==
    /\ pc = "finished"
    /\ toc_valid
    /\ spec_valid
    /\ files.report.exists
    /\ files.report.content[1].validation_status = "PASS"

-----------------------------------------------------------------------------
\* the header lines of the document, page after page (one line a page)
C22_HeaderIds == [p \in 1..Len(pages) |-> HeaderIdOf(pages[p][1])]

\* the entries whose section_id is that of an earlier entry
C22_Repeated ==
    {i \in 1..Len(toc_ret) : \E j \in 1..i - 1 :
                                toc_ret[j].section_id = toc_ret[i].section_id}

(* C22: for a document of at least 1000 header lines, all of the first
   level: the TOC parser returns one entry a header line, with the line's
   section_id, also when lines repeat a section_id; TOC validation then
   returns false exactly when some section_id occurs on two lines, and
   its one error is 'Duplicate section IDs found: <n>', n the number of
   entries whose section_id an earlier entry has *)
C22_DuplicateIdsFail ==
    pc = "validated"
        => /\ Len(toc_ret) >= MinSections
           /\ [i \in 1..Len(toc_ret) |-> toc_ret[i].section_id] = C22_HeaderIds
           /\ C22_Repeated # {}
                 => /\ ~toc_valid
                    /\ toc_validator.validation_errors
                          = << "Duplicate section IDs found: "
                               \o ToString(Cardinality(C22_Repeated)) >>
           /\ C22_Repeated = {} => toc_valid

\* the validation of a document in which two lines repeat the number 1
C22_Witness ==
    /\ pc = "validated"
    /\ toc_validator.validation_errors = << "Duplicate section IDs found: 2" >>
    /\ ~toc_valid

-----------------------------------------------------------------------------
\* how many records of the kinds a list of runs holds
C23_CountOf(runs, kinds) ==
    LET OfKinds(r) == r.kind \in kinds
        chosen == SelectSeq(runs, OfKinds)
    IN  RunsLen(chosen)

\* the first of the rules that fails (Len(failing) + 1: none does)
C23_FirstFailing(failing) ==
    MinOf({k \in 1..Len(failing) : failing[k]} \cup {Len(failing) + 1})

\* which TOC rules the list fails: count, hierarchy, section ids, fields
C23_TocFailing ==
    << RunsLen(toc_data) < MinSections,
       \/ C23_CountOf(toc_data, {"deep"}) > 0
       \/ 10 * C23_CountOf(toc_data, {"orphan"}) > RunsLen(toc_data),
       C23_CountOf(toc_data, {"repeat"}) > 0,
       C23_CountOf(toc_data, {"untitled"}) > 0 >>

\* the error of each TOC rule on the list
C23_TocErrors ==
    << "Insufficient sections: " \o ToString(RunsLen(toc_data)) \o " (minimum: 1000)",
       IF C23_CountOf(toc_data, {"deep"}) > 0
       THEN "Hierarchy too deep: 11 levels (max: 10)"
       ELSE "Too many hierarchy issues: "
            \o ToString(C23_CountOf(toc_data, {"orphan"})),
       "Duplicate section IDs found: " \o ToString(C23_CountOf(toc_data, {"repeat"})),
       "Missing required fields in "
            \o ToString(C23_CountOf(toc_data, {"untitled"})) \o " entries" >>

\* one call of the TOC validator: one error at most, that of the first
\* failing rule; the hierarchy rule has left its issues and the id rule its
\* validated ids only if no rule before them failed
C23_Toc ==
    LET first == C23_FirstFailing(C23_TocFailing)
    IN  /\ val_exc = NoException
        /\ toc_validator.validation_errors
              = IF first > 4 THEN <<>> ELSE <<C23_TocErrors[first]>>
        /\ toc_validator.error_count = Len(toc_validator.validation_errors)
        /\ toc_valid = (first > 4)
        /\ Len(toc_validator.hierarchy_issues)
              = IF first >= 2 THEN C23_CountOf(toc_data, {"orphan"}) ELSE 0
        /\ Len(toc_validator.validated_sections)
              = IF first >= 3
                THEN RunsLen(toc_data) - C23_CountOf(toc_data, {"repeat"})
                ELSE 0

\* the characters of the trimmed contents of the list
C23_ContentLength ==
    2 * MinAverageLength * C23_CountOf(spec_data, {"longer"})
    + MinAverageLength * C23_CountOf(spec_data, {"long", "untitled"})
    + C23_CountOf(spec_data, {"short"})

\* which content rules the list fails: count, quality, fields, coverage
C23_SpecFailing ==
    << RunsLen(spec_data) < SpecMinSections,
       4 * C23_CountOf(spec_data, {"empty", "blank"}) > RunsLen(spec_data),
       C23_CountOf(spec_data, {"untitled"}) > 0,
       \/ C23_ContentLength < MinAverageLength * RunsLen(spec_data)
       \/ 20 * C23_CountOf(spec_data, {"empty", "blank"}) > RunsLen(spec_data) >>

\* the errors of the content rules on the list (the coverage rule has two)
C23_SpecErrors ==
    << { "Insufficient sections: " \o ToString(RunsLen(spec_data)) \o " (minimum: 1000)" },
       { "Content quality too low: "
         \o FormatPercent1(RunsLen(spec_data) - C23_CountOf(spec_data, {"empty", "blank"}),
                           RunsLen(spec_data))
         \o " (threshold: 75.0%)" },
       { "Missing required fields in "
         \o ToString(C23_CountOf(spec_data, {"untitled"})) \o " entries" },
       { "Average content too short: "
         \o FormatFixed0(C23_ContentLength, RunsLen(spec_data)) \o " chars",
         "Too many empty sections: "
         \o FormatPercent1(C23_CountOf(spec_data, {"empty", "blank"}),
                           RunsLen(spec_data)) } >>

\* one call of the content validator: one error at most, that of the first
\* failing rule; the quality rule has left its counts only if the count
\* rule passed
C23_Spec ==
    LET first == C23_FirstFailing(C23_SpecFailing)
    IN  /\ val_exc = NoException
        /\ Len(spec_validator.validation_errors) = IF first > 4 THEN 0 ELSE 1
        /\ first <= 4 => spec_validator.validation_errors[1] \in C23_SpecErrors[first]
        /\ spec_validator.error_count = Len(spec_validator.validation_errors)
        /\ spec_valid = (first > 4)
        /\ spec_validator.total_content_length
              = IF first >= 2 THEN C23_ContentLength ELSE 0
        /\ Len(spec_validator.empty_sections)
              = IF first >= 2 THEN C23_CountOf(spec_data, {"empty", "blank"}) ELSE 0

(* C23: a validate call of either validator records at most one error, the
   error of the first rule in checklist order that the list fails (TOC:
   count, hierarchy, section ids, required fields; content: count, quality,
   required fields, coverage), and the rules after it are not run: they
   leave no hierarchy issues, validated ids or content counts behind *)
C23_FirstFailingRuleOnly ==
    /\ (vpc = "toc" /\ calls = 1) => C23_Toc
    /\ (vpc = "spec" /\ calls = 1) => C23_Spec

\* a TOC list that fails the hierarchy, the id and the field rule and has
\* the hierarchy error only
C23_Witness ==
    /\ vpc = "toc"
    /\ calls = 1
    /\ toc_data = << Run("top", MinSections - 3), Run("deep", 1), Run("repeat", 1),
                     Run("untitled", 1) >>
    /\ toc_validator.validation_errors = << "Hierarchy too deep: 11 levels (max: 10)" >>
    /\ toc_validator.validated_sections = <<>>

-----------------------------------------------------------------------------
(* C24: on the same page-text mapping TOCExtractor.extract returns the list
   USBPDTOCParser.parse returns, and ContentExtractor.extract the list
   USBPDSpecParser.parse returns: the same records in the same order *)
C24_ExtractorsAgreeWithParsers ==
    /\ pc \in {"toc_extracted", "done"} => toc_extractor.extracted_items = toc_ret
    /\ pc = "done" => content_extractor.extracted_items = spec_ret

\* both pairs have run on the example document: two entries and two
\* sections, the first of a title and a line of text
C24_Witness ==
    /\ pc = "done"
    /\ pages = ExamplePages
    /\ Len(toc_extractor.extracted_items) = 2
    /\ Len(content_extractor.extracted_items) = 2
    /\ content_extractor.extracted_items[1].content
          = <<"I", "n", "t", "r", "o", " ", "S", "o", "m", "e", " ", "t", "e", "x", "t">>

-----------------------------------------------------------------------------
(* C25: on an input both builders have processed, every header line gives *)
(* at most one ContentSection, and gives one exactly when it has a title   *)
(* or some line that is not empty once trimmed follows it before the next  *)
(* header line or the end; so the section ids of the content list are a    *)
(* subsequence, in order, of the section ids of the TOC list, and the      *)
(* content list is never the longer one.                                   *)

C25_BothParsed == pc \in {"spec_parsed", "validated"}

\* header line i has a title, or content follows it within its section
C25_Yields(i) ==
    \/ TitleOf(Flat[i].text) # <<>>
    \/ \E j \in i + 1..SectionEnd(i) - 1 : ~IsBlankLine(Flat[j].text)

\* the section ids of the header lines in S, in document order
C25_IdsOf(S) ==
    LET at == Ascending(S)
    IN  [k \in 1..Len(at) |-> HeaderIdOf(Flat[at[k]].text)]

C25_SectionIds(items) == [k \in 1..Len(items) |-> items[k].section_id]

\* a is b with some of its elements left out
RECURSIVE C25_IsSubsequence(_, _)
C25_IsSubsequence(a, b) ==
    IF a = <<>> THEN TRUE
    ELSE IF b = <<>> THEN FALSE
    ELSE IF a[1] = b[1] THEN C25_IsSubsequence(Tail(a), Tail(b))
    ELSE C25_IsSubsequence(a, Tail(b))

C25_OneSectionPerProductiveHeader ==
    C25_BothParsed =>
        /\ C25_SectionIds(toc_ret) = C25_IdsOf(HeaderIdx)
        /\ C25_SectionIds(spec_ret) = C25_IdsOf({i \in HeaderIdx : C25_Yields(i)})
        /\ C25_IsSubsequence(C25_SectionIds(spec_ret), C25_SectionIds(toc_ret))
        /\ Len(spec_ret) <= Len(toc_ret)

\* three header lines of which the middle one, without a title and with
\* no content before the next header line, gives no section
C25_Witness ==
    /\ C25_BothParsed
    /\ Len(toc_ret) = 3
    /\ Len(spec_ret) = 2
    /\ ~C25_Yields(2)
    /\ C25_SectionIds(toc_ret) = << <<"1">>, <<"1">>, <<"1", ".", "1">> >>
    /\ C25_SectionIds(spec_ret) = << <<"1">>, <<"1", ".", "1">> >>

-----------------------------------------------------------------------------
(* C26: the lines before the first header line are in no emitted           *)
(* ContentSection: either content builder returns for the document what it *)
(* returns for the document without those lines, and a document with no    *)
(* header line gives the empty list.                                       *)

\* the number of lines before the first header line
C26_PreambleLen == IF HeaderIdx = {} THEN Len(Flat) ELSE MinOf(HeaderIdx) - 1

\* the pages pgs without their first n lines
RECURSIVE C26_Drop(_, _)
C26_Drop(pgs, n) ==
    IF pgs = <<>> THEN <<>>
    ELSE IF n >= Len(pgs[1]) THEN << <<>> >> \o C26_Drop(Tail(pgs), n - Len(pgs[1]))
    ELSE << SubSeq(pgs[1], n + 1, Len(pgs[1])) >> \o Tail(pgs)

\* the page texts of the document without its preamble
C26_Trimmed ==
    LET pgs == C26_Drop(pages, C26_PreambleLen)
    IN  [p \in 1..Len(pgs) |-> PageText(pgs[p])]

C26_PreambleDiscarded ==
    /\ SpecParsed =>
          /\ spec_ret = SpecParserParse(NewSpecParser, C26_Trimmed).content_sections
          /\ HeaderIdx = {} => spec_ret = <<>>
    /\ ContentExtracted =>
          /\ content_extractor.extracted_items
                = ContentExtractorExtract(NewContentExtractor, C26_Trimmed).extracted_items
          /\ HeaderIdx = {} => content_extractor.extracted_items = <<>>

\* two lines of content, then a header line with a title: one section, of
\* the title alone
C26_Witness ==
    /\ ContentExtracted
    /\ HeaderIdx = {3}
    /\ {1, 2} \subseteq NonBlankIdx
    /\ AsSections(spec_ret) = << [section_id |-> <<"1">>, content |-> <<"a">>] >>
    /\ content_extractor.extracted_items = spec_ret

\* content and no header line: both builders have returned the empty list
C26_WitnessNoHeader ==
    /\ ContentExtracted
    /\ HeaderIdx = {}
    /\ NonBlankIdx # {}
    /\ spec_ret = <<>>

-----------------------------------------------------------------------------
(* C27: every TOCEntry the TOC builder makes has a section_id that is not  *)
(* empty and does not end in a dot, and, when its level is above 1, a      *)
(* parent_id that is neither null nor the empty string; so the validator's *)
(* hierarchy rule, run on the entry, records no hierarchy issue.           *)

C27_Made == lpc \in {"toc", "ext", "spec", "done"} /\ toc_line # NoEntry

C27_EntriesWellFormed ==
    C27_Made =>
        /\ toc_line.section_id # <<>>
        /\ toc_line.section_id[Len(toc_line.section_id)] # "."
        /\ toc_line.level > 1 =>
              /\ toc_line.parent_id # None
              /\ toc_line.parent_id # <<>>
        /\ TocValidateHierarchy(NewTocValidator, <<toc_line>>).self.hierarchy_issues = <<>>

\* the line "1.1.": section_id "1.1" of level 2 with parent "1"
C27_Witness ==
    /\ C27_Made
    /\ line = <<"1", ".", "1", ".">>
    /\ toc_line.section_id = <<"1", ".", "1">>
    /\ toc_line.level = 2
    /\ toc_line.parent_id = <<"1">>

-----------------------------------------------------------------------------
(* C29: USBPDRunner.execute.  With neither flag the parser script runs     *)
(* first and the validation script runs only if the parser succeeded, and  *)
(* the result is true iff both succeeded; with check_only (with or without *)
(* parse_only) only the validation script runs; with parse_only alone only *)
(* the parser runs; the result is false whenever a script that was run     *)
(* failed or was not found.                                                *)

C29_Failed(script) == runner.outcome[script] \in {"CalledProcessError", "FileNotFoundError"}
C29_Succeeded(script) == runner.outcome[script] = "ok"

\* the scripts the call is to run, in order
C29_ToRun ==
    IF runner.check_only THEN <<CheckScript>>
    ELSE IF runner.parse_only THEN <<ParserScript>>
    ELSE IF C29_Succeeded(ParserScript) THEN <<ParserScript, CheckScript>>
    ELSE <<ParserScript>>

\* the result of the call
C29_Result ==
    IF runner.check_only THEN C29_Succeeded(CheckScript)
    ELSE IF runner.parse_only THEN C29_Succeeded(ParserScript)
    ELSE C29_Succeeded(ParserScript) /\ C29_Succeeded(CheckScript)

C29_RunnerOutcomes ==
    /\ runner.rpc # "idle" =>
          /\ Len(runner.ran) <= Len(C29_ToRun)
          /\ runner.ran = SubSeq(C29_ToRun, 1, Len(runner.ran))
    /\ runner.rpc = "returned" =>
          /\ runner.ran = C29_ToRun
          /\ runner.ret = (IF C29_Result THEN "True" ELSE "False")
          /\ (\E i \in 1..Len(runner.ran) : C29_Failed(runner.ran[i])) => runner.ret = "False"

\* neither flag, the parser succeeded and the validation script failed:
\* both were run, in this order, and the result is false
C29_Witness ==
    /\ runner.rpc = "returned"
    /\ ~runner.parse_only
    /\ ~runner.check_only
    /\ runner.ran = <<ParserScript, CheckScript>>
    /\ runner.outcome[CheckScript] = "CalledProcessError"
    /\ runner.ret = "False"

\* both flags: the validation script alone was run
C29_WitnessBothFlags ==
    /\ runner.rpc = "returned"
    /\ runner.parse_only
    /\ runner.check_only
    /\ runner.ran = <<CheckScript>>
    /\ runner.ret = "True"

-----------------------------------------------------------------------------
(* C30: after any sequence of write calls on one JSONLWriter,              *)
(* lines_written is the number of lines the output file contains and is    *)
(* write_count, the length of the list of the last successful write; a     *)
(* failed write returns false and leaves write_count and is_written as     *)
(* they were.                                                              *)

C30_Called == step_log # <<>> /\ runner.rpc = "idle" /\ pc = "idle"

C30_LinesWrittenIsFileLength ==
    C30_Called =>
        /\ writers.toc.lines_written = Len(files.toc.content)
        /\ writers.toc.lines_written = writers.toc.write_count

\* the second half of the claim, which the code satisfies: a write call
\* that returned false has left write_count and is_written as they were
C30_FailedWriteKeepsCounts ==
    [][(Len(step_log') = Len(step_log) + 1 /\ ~step_log'[Len(step_log')].written)
          => /\ writers'.toc.write_count = writers.toc.write_count
             /\ writers'.toc.is_written = writers.toc.is_written]_vars

\* the first write call alone, when it succeeds, leaves the three numbers
\* equal
C30_FirstWriteAgrees ==
    (C30_Called /\ Len(step_log) = 1 /\ step_log[1].written) =>
        /\ writers.toc.lines_written = Len(files.toc.content)
        /\ writers.toc.lines_written = writers.toc.write_count

\* two successful writes of the same two entries: the file has two lines,
\* write_count is 2, lines_written is 4
C30_SecondWrite ==
    /\ C30_Called
    /\ Len(step_log) = 2
    /\ step_log[1].written /\ step_log[2].written
    /\ Len(files.toc.content) = 2
    /\ writers.toc.write_count = 2
    /\ writers.toc.lines_written = 4

=========================================================================
